---- MODULE Spec2Model ----
(***************************************************************************)
(* Model of the book recommendation pipeline of Aletheia2.0:               *)
(*   src/app2.py  BookTasteAnalyzer backed by the Anthropic client         *)
(*   src/remd.py  BookTasteAnalyzer backed by a local Ollama model         *)
(*                                                                         *)
(* A backend reply is a text.  A text is a sequence of lexemes (strings):  *)
(* the brackets "{" "}" "[" "]", scalar JSON literals, prose words, and    *)
(* object members written "key:value" (the separating commas, colons and   *)
(* whitespace of JSON are folded into the lexemes).  find/rfind, slicing   *)
(* and json.loads are computed over these sequences.                       *)
(***************************************************************************)
EXTENDS Integers, Sequences, FiniteSets, TLC

\* ------------------------------------------------------------------ bounds
MaxRead == 2
MaxUnread == 2
MaxElems == 3
MaxTopN == 2

\* ------------------------------------------------------------ generic helpers
Min(a, b) == IF a < b THEN a ELSE b

Max(a, b) == IF a > b THEN a ELSE b

Range(s) == {s[i] : i \in 1..Len(s)}

SeqsUpTo(S, n) == UNION {[1..k -> S] : k \in 0..n}

RECURSIVE Gcd(_, _)
Gcd(a, b) == IF b = 0 THEN a ELSE Gcd(b, a % b)

\* Python's true division of two non-negative ints, kept exact (num/den in
\* lowest terms) so that equal floats are equal values.
Div(a, b) == LET g == Gcd(a, b) IN [num |-> a \div g, den |-> b \div g]

\* ------------------------------------------------------------- str methods
\* str.find(ch): 0-based index of the first occurrence, -1 when absent.
Find(s, ch) ==
  IF \E i \in 1..Len(s) : s[i] = ch
  THEN (CHOOSE i \in 1..Len(s) : s[i] = ch /\ \A j \in 1..(i-1) : s[j] # ch) - 1
  ELSE -1

\* str.rfind(ch): 0-based index of the last occurrence, -1 when absent.
RFind(s, ch) ==
  IF \E i \in 1..Len(s) : s[i] = ch
  THEN (CHOOSE i \in 1..Len(s) : s[i] = ch /\ \A j \in (i+1)..Len(s) : s[j] # ch) - 1
  ELSE -1

\* s[start:end] with Python's rules: a negative index counts from the end,
\* indices are clamped to [0, len], an empty range gives the empty string.
Slice(s, start, end) ==
  LET n  == Len(s)
      a0 == IF start < 0 THEN Max(n + start, 0) ELSE Min(start, n)
      b0 == IF end < 0 THEN Max(n + end, 0) ELSE Min(end, n)
  IN  IF a0 >= b0 THEN << >> ELSE SubSeq(s, a0 + 1, b0)

\* -------------------------------------------------------------- json.loads
ScalarKind(lex) ==
  CASE lex = "42"   -> "num"
    [] lex = "7"    -> "num"
    [] lex = "null" -> "null"
    [] lex = "true" -> "bool"
    [] lex = "'s'"  -> "str"
    [] lex = "''"   -> "str"
    [] OTHER        -> "none"

\* Key of an object member lexeme "key:value"; "" for any other lexeme.
MemberKey(lex) ==
  CASE lex \in {"title:A", "title:B", "title:Z"}            -> "title"
    [] lex \in {"overall_score:40", "overall_score:70",
                "overall_score:95", "overall_score:150"}    -> "overall_score"
    [] lex \in {"genre_match:10"}                           -> "genre_match"
    [] lex \in {"theme_match:20"}                           -> "theme_match"
    [] lex \in {"author_similarity:30"}                     -> "author_similarity"
    [] lex \in {"novelty_score:50"}                         -> "novelty_score"
    [] lex \in {"reasoning:r1", "reasoning:r2"}             -> "reasoning"
    [] lex \in {"recommendation:recommended"}               -> "recommendation"
    [] lex \in {"favorite_genres:G"}                        -> "favorite_genres"
    [] lex \in {"favorite_authors:A"}                       -> "favorite_authors"
    [] lex \in {"common_themes:T"}                          -> "common_themes"
    [] lex \in {"era_preferences:E"}                        -> "era_preferences"
    [] lex \in {"reading_level:literary"}                   -> "reading_level"
    [] lex \in {"diversity_score:0.8"}                      -> "diversity_score"
    [] lex \in {"summary:s1"}                               -> "summary"
    [] lex \in {"title:null"}                               -> "title"
    [] lex \in {"author:X", "author:7"}                     -> "author"
    [] lex \in {"genres:L", "genres:null"}                  -> "genres"
    [] lex \in {"themes:L", "themes:'s'"}                   -> "themes"
    [] lex \in {"year:1999"}                                -> "year"
    [] lex \in {"description:d1"}                           -> "description"
    [] OTHER                                                -> ""

\* JSON values: t is the Python type json.loads produces, ms the member
\* lexemes of a dict in document order, es the elements of a list.
JScalar(kind, lex) == [t |-> kind, lex |-> lex, ms |-> << >>, es |-> << >>]

JDict(ms) == [t |-> "dict", lex |-> "", ms |-> ms, es |-> << >>]

JList(es) == [t |-> "list", lex |-> "", ms |-> << >>, es |-> es]

NoValue == [t |-> "none", lex |-> "", ms |-> << >>, es |-> << >>]

ParseFail == [ok |-> FALSE, v |-> NoValue, nxt |-> 0]

\* Members of an object from position i up to the closing brace.
RECURSIVE ParseMembers(_, _, _)
ParseMembers(toks, i, acc) ==
  IF i > Len(toks) THEN ParseFail
  ELSE IF toks[i] = "}" THEN [ok |-> TRUE, v |-> JDict(acc), nxt |-> i + 1]
  ELSE IF MemberKey(toks[i]) # "" THEN ParseMembers(toks, i + 1, Append(acc, toks[i]))
  ELSE ParseFail

\* One JSON value starting at position i; nxt is the position after it.
RECURSIVE ParseValue(_, _)
RECURSIVE ParseElements(_, _, _)
ParseValue(toks, i) ==
  IF i > Len(toks) THEN ParseFail
  ELSE IF toks[i] = "{" THEN ParseMembers(toks, i + 1, << >>)
  ELSE IF toks[i] = "[" THEN ParseElements(toks, i + 1, << >>)
  ELSE IF ScalarKind(toks[i]) # "none"
       THEN [ok |-> TRUE, v |-> JScalar(ScalarKind(toks[i]), toks[i]), nxt |-> i + 1]
  ELSE ParseFail

ParseElements(toks, i, acc) ==
  IF i > Len(toks) THEN ParseFail
  ELSE IF toks[i] = "]" THEN [ok |-> TRUE, v |-> JList(acc), nxt |-> i + 1]
  ELSE LET r == ParseValue(toks, i)
       IN  IF r.ok THEN ParseElements(toks, r.nxt, Append(acc, r.v)) ELSE ParseFail

\* json.loads(text): the value when the whole text is one JSON value,
\* ok = FALSE when json.JSONDecodeError is raised.
JsonLoads(text) ==
  LET r == ParseValue(text, 1)
  IN  IF r.ok /\ r.nxt = Len(text) + 1 THEN [ok |-> TRUE, v |-> r.v]
      ELSE [ok |-> FALSE, v |-> NoValue]

\* ------------------------------------------------------------------ dict.get
HasKey(ms, key) == \E i \in 1..Len(ms) : MemberKey(ms[i]) = key

\* The member lexeme a dict holds for key (json.loads keeps the last of
\* duplicate keys); only used under HasKey.
Member(ms, key) ==
  ms[CHOOSE i \in 1..Len(ms) :
       MemberKey(ms[i]) = key /\ \A j \in (i+1)..Len(ms) : MemberKey(ms[j]) # key]

\* Decoded member values, by the JSON type the prompt asks for.
StrOf(lex) ==
  CASE lex = "title:A" -> "A"
    [] lex = "title:B" -> "B"
    [] lex = "title:Z" -> "Z"
    [] lex = "reasoning:r1" -> "r1"
    [] lex = "reasoning:r2" -> "r2"
    [] lex = "recommendation:recommended" -> "recommended"
    [] lex = "reading_level:literary" -> "literary"
    [] OTHER -> ""

NumOf(lex) ==
  CASE lex = "overall_score:40"     -> 40
    [] lex = "overall_score:70"     -> 70
    [] lex = "overall_score:95"     -> 95
    [] lex = "overall_score:150"    -> 150
    [] lex = "genre_match:10"       -> 10
    [] lex = "theme_match:20"       -> 20
    [] lex = "author_similarity:30" -> 30
    [] lex = "novelty_score:50"     -> 50
    [] OTHER -> 0

GetStr(ms, key, default) == IF HasKey(ms, key) THEN StrOf(Member(ms, key)) ELSE default

GetNum(ms, key, default) == IF HasKey(ms, key) THEN NumOf(Member(ms, key)) ELSE default

\* -------------------------------------------------------------- data model
\* An optional constructor argument: None, or a supplied list.
None == [some |-> FALSE, val |-> << >>]

Some(x) == [some |-> TRUE, val |-> x]

\* Book(...) followed by __post_init__: a None genres / themes becomes [].
\* A variant of the dataclass without __post_init__.
post_init_absent(field) == field

\* __post_init__ on one container field: None becomes [].
post_init(field) == IF field.some THEN field ELSE Some(<< >>)

\* The dataclass instance after __init__ and __post_init__; genres and
\* themes are fields that can hold None or a list.
BookInstance(title, author, genres, themes) ==
  [title  |-> title,
   author |-> author,
   genres |-> post_init(genres),
   themes |-> post_init(themes)]

\* A Book as the analyzers read it: the lists its container fields hold.
Book(title, author, genres, themes) ==
  LET b == BookInstance(title, author, genres, themes)
  IN  [title  |-> b.title,
       author |-> b.author,
       genres |-> b.genres.val,
       themes |-> b.themes.val]

TasteProfile(fg, fa, ct, ep, rl, ds, sm) ==
  [favorite_genres  |-> fg,
   favorite_authors |-> fa,
   common_themes    |-> ct,
   era_preferences  |-> ep,
   reading_level    |-> rl,
   diversity_score  |-> ds,
   summary          |-> sm]

BookScore(book, os, gm, tm, as, ns, rs, rc) ==
  [book              |-> book,
   overall_score     |-> os,
   genre_match       |-> gm,
   theme_match       |-> tm,
   author_similarity |-> as,
   novelty_score     |-> ns,
   reasoning         |-> rs,
   recommendation    |-> rc]

\* The profile analyze_reading_taste returns for an empty read_books.
SentinelProfile ==
  TasteProfile(<< >>, << >>, << >>, << >>, "unknown", Div(0, 1), <<"No books read yet.">>)

\* Placeholder held while no profile has been returned.
NoProfile == TasteProfile(<< >>, << >>, << >>, << >>, "", Div(0, 1), << >>)

\* ------------------------------------------------------ collections.Counter
\* A Counter (and any dict) is a sequence of [k, v] entries in insertion
\* order, one entry per key.
Keys(d) == [i \in 1..Len(d) |-> d[i].k]

\* counter[key] += 1
Incr(c, key) ==
  IF \E i \in 1..Len(c) : c[i].k = key
  THEN [i \in 1..Len(c) |-> IF c[i].k = key THEN [k |-> key, v |-> c[i].v + 1] ELSE c[i]]
  ELSE Append(c, [k |-> key, v |-> 1])

\* counter.update(keys) / a loop of counter[key] += 1 over keys
RECURSIVE IncrAll(_, _)
IncrAll(c, keys) ==
  IF keys = << >> THEN c ELSE IncrAll(Incr(c, Head(keys)), Tail(keys))

\* A variant that is not stable: entries with an equal key swap their order.
RankTiesLast(keys, i) ==
  Cardinality({j \in 1..Len(keys) : keys[j] > keys[i] \/ (keys[j] = keys[i] /\ j > i)}) + 1

\* Position of entry i after a stable sort by descending key: entries with a
\* larger key come first, entries with an equal key keep their order.
Rank(keys, i) ==
  Cardinality({j \in 1..Len(keys) : keys[j] > keys[i] \/ (keys[j] = keys[i] /\ j < i)}) + 1

\* sorted(s, key=..., reverse=True) / list.sort(key=..., reverse=True), with
\* keys[i] the key of s[i].
SortDesc(s, keys) ==
  [r \in 1..Len(s) |-> s[CHOOSE i \in 1..Len(s) : Rank(keys, i) = r]]

Values(d) == [i \in 1..Len(d) |-> d[i].v]

\* Counter.most_common(n): the n entries with the highest counts, ties in
\* insertion order.
most_common(c, n) == SubSeq(SortDesc(c, Values(c)), 1, Min(n, Len(c)))

RECURSIVE Sum(_)
Sum(s) == IF s = << >> THEN 0 ELSE Head(s) + Sum(Tail(s))

\* ", ".join(names)
RECURSIVE Join(_)
Join(names) ==
  IF names = << >> THEN << >>
  ELSE IF Len(names) = 1 THEN names
  ELSE <<Head(names), ", ">> \o Join(Tail(names))

\* ------------------------------------------------------- Python floats
\* A positive float (IEEE 754 binary64) is [e, m]: m its 53 significand
\* bits, the leading one first, e the exponent of the leading bit; its
\* value is m[1].m[2]...m[53] (binary) * 2^e.
Zeros(n) == [i \in 1..n |-> 0]

Ones(n) == [i \in 1..n |-> 1]

\* The exponent shift that brings c / t into [1, 2), for 0 < c <= t.
RECURSIVE Shift(_, _)
Shift(c, t) == IF c >= t THEN 0 ELSE 1 + Shift(2 * c, t)

\* base^n mod t, by repeated squaring
RECURSIVE PowMod(_, _, _)
PowMod(base, n, t) ==
  IF n = 0 THEN 1 % t
  ELSE LET h == PowMod(base, n \div 2, t)
       IN  (h * h * (IF n % 2 = 1 THEN base ELSE 1)) % t

\* The remainder of the long division r / t after n quotient bits, for a
\* remainder 0 <= r < t: r * 2^n mod t.
DivRem(r, t, n) == (r * PowMod(2, n, t)) % t

\* The next n bits of the quotient r / t.
DivBits(r, t, n) ==
  [i \in 1..n |-> IF 2 * DivRem(r, t, i - 1) >= t THEN 1 ELSE 0]

\* bits + 1: the sum's bits and the carry out of the leading bit; a bit
\* flips when every bit after it is 1.
IncBits(m) ==
  [b |-> [i \in 1..Len(m) |->
            IF \A j \in (i + 1)..Len(m) : m[j] = 1 THEN 1 - m[i] ELSE m[i]],
   c |-> IF \A j \in 1..Len(m) : m[j] = 1 THEN 1 ELSE 0]

\* The float one unit in the last place above x.
RoundUp(x) ==
  LET r == IncBits(x.m)
  IN  IF r.c = 1 THEN [e |-> x.e + 1, m |-> <<1>> \o Zeros(52)]
      ELSE [e |-> x.e, m |-> r.b]

\* c / t for ints 0 < c <= t: the quotient rounded to the nearest float,
\* ties to the even significand.
float_div(c, t) ==
  LET k   == Shift(c, t)
      r0  == c * 2^k - t
      x   == [e |-> 0 - k, m |-> <<1>> \o DivBits(r0, t, 52)]
      rem == DivRem(r0, t, 52)
  IN  IF 2 * rem > t \/ (2 * rem = t /\ x.m[53] = 1) THEN RoundUp(x) ELSE x

\* The carry into position i when bit strings a and b of one length are
\* added: some later position generates a carry and every position between
\* passes it on.
CarryIn(a, b, i) ==
  IF \E j \in (i + 1)..Len(a) :
       /\ a[j] + b[j] = 2
       /\ \A k \in (i + 1)..(j - 1) : a[k] + b[k] = 1
  THEN 1 ELSE 0

\* a + b: the sum's bits and the carry out of the leading bit.
AddBits(a, b) ==
  [b |-> [i \in 1..Len(a) |-> (a[i] + b[i] + CarryIn(a, b, i)) % 2],
   c |-> CarryIn(a, b, 0)]

\* x + y for positive floats: the exact sum rounded to the nearest float,
\* ties to even.
float_add(x, y) ==
  LET hi   == IF x.e >= y.e THEN x ELSE y
      lo   == IF x.e >= y.e THEN y ELSE x
      d    == hi.e - lo.e
      r    == AddBits(hi.m \o Zeros(d), Zeros(d) \o lo.m)
      full == IF r.c = 1 THEN <<1>> \o r.b ELSE r.b
      keep == [e |-> hi.e + r.c, m |-> SubSeq(full, 1, 53)]
      rest == SubSeq(full, 54, Len(full))
  IN  IF /\ rest # << >>
         /\ rest[1] = 1
         /\ (keep.m[53] = 1 \/ \E i \in 2..Len(rest) : rest[i] = 1)
      THEN RoundUp(keep)
      ELSE keep

\* sum(ws) for a non-empty list of positive floats: 0 + ws[0] is ws[0],
\* then one float addition per further element, left to right.
RECURSIVE float_sum(_)
float_sum(ws) ==
  IF Len(ws) = 1 THEN ws[1]
  ELSE float_add(float_sum(SubSeq(ws, 1, Len(ws) - 1)), ws[Len(ws)])

\* x < y for positive floats
float_lt(x, y) ==
  \/ x.e < y.e
  \/ /\ x.e = y.e
     /\ \E i \in 1..53 : x.m[i] < y.m[i] /\ \A j \in 1..(i - 1) : x.m[j] = y.m[j]

\* 1.0
float_one == [e |-> 0, m |-> <<1>> \o Zeros(52)]

\* ------------------------------------------------------ _create_basic_profile
RECURSIVE genre_counter(_)
genre_counter(books) ==
  IF books = << >> THEN << >>
  ELSE IncrAll(genre_counter(SubSeq(books, 1, Len(books) - 1)), books[Len(books)].genres)

RECURSIVE author_counter(_)
author_counter(books) ==
  IF books = << >> THEN << >>
  ELSE Incr(author_counter(SubSeq(books, 1, Len(books) - 1)), books[Len(books)].author)

RECURSIVE theme_counter(_)
theme_counter(books) ==
  IF books = << >> THEN << >>
  ELSE IncrAll(theme_counter(SubSeq(books, 1, Len(books) - 1)), books[Len(books)].themes)

\* A variant that divides by the number of books read.
total_genres_is_books_read(books) ==
  LET t == Len(books) IN IF t = 0 THEN 1 ELSE t

\* sum(genre_counter.values()) or 1
total_genres(books) ==
  LET t == Sum(Values(genre_counter(books))) IN IF t = 0 THEN 1 ELSE t

\* A variant that divides by the occurrences of the listed genres only.
favorite_genres_listed_total(books) ==
  LET top == most_common(genre_counter(books), 5)
      t   == Sum(Values(top))
  IN  [i \in 1..Len(top) |-> [k |-> top[i].k, v |-> Div(top[i].v, IF t = 0 THEN 1 ELSE t)]]

\* {genre: count / total_genres for genre, count in most_common(5)}
favorite_genres(books) ==
  LET top == most_common(genre_counter(books), 5)
  IN  [i \in 1..Len(top) |-> [k |-> top[i].k, v |-> Div(top[i].v, total_genres(books))]]

\* The summary as the pieces of its f-string.
summary_app2(books) ==
  <<"Enjoys ">> \o Join(SubSeq(Keys(favorite_genres(books)), 1,
                               Min(3, Len(favorite_genres(books)))))
    \o <<" with favorite authors including ">>
    \o Join(SubSeq(Keys(author_counter(books)), 1, Min(2, Len(author_counter(books)))))

summary_remd(books) ==
  <<"Enjoys ">> \o Join(SubSeq(Keys(favorite_genres(books)), 1,
                               Min(3, Len(favorite_genres(books)))))

\* Called with a non-empty read_books only (analyze_reading_taste returns
\* earlier for an empty one); app2 guards the division, remd does not.
create_basic_profile(v, books) ==
  TasteProfile(favorite_genres(books),
               most_common(author_counter(books), 5),
               most_common(theme_counter(books), 5),
               << >>,
               "mixed",
               IF books = << >> THEN Div(0, 1)
               ELSE Div(Len(genre_counter(books)), Len(books)),
               IF v = "app2" THEN summary_app2(books) ELSE summary_remd(books))

\* ------------------------------------------------------------ JSON extraction
\* The text handed to json.loads.  app2 takes the slice from the first
\* opening bracket to the last closing bracket when there is such a pair and
\* the whole reply otherwise; remd always takes content[start:end].
\* A variant that cuts at the first closing bracket.
json_str_app2_first_close(content, open, close) ==
  LET start == Find(content, open)
      end   == Find(content, close) + 1
  IN  IF start # -1 /\ end > start THEN Slice(content, start, end) ELSE content

json_str_app2(content, open, close) ==
  LET start == Find(content, open)
      end   == RFind(content, close) + 1
  IN  IF start # -1 /\ end > start THEN Slice(content, start, end) ELSE content

json_str_remd(content, open, close) ==
  LET start == Find(content, open)
      end   == RFind(content, close) + 1
  IN  Slice(content, start, end)

json_str(v, content, open, close) ==
  IF v = "app2" THEN json_str_app2(content, open, close)
  ELSE json_str_remd(content, open, close)

\* Decoded values of the profile members.
GenresOf(lex) ==
  IF lex = "favorite_genres:G"
  THEN <<[k |-> "g1", v |-> Div(3, 4)], [k |-> "g2", v |-> Div(1, 4)]>>
  ELSE << >>

CountsOf(lex) ==
  CASE lex = "favorite_authors:A" -> <<[k |-> "X", v |-> 2]>>
    [] lex = "common_themes:T"    -> <<[k |-> "t1", v |-> 1], [k |-> "t2", v |-> 3]>>
    [] lex = "era_preferences:E"  -> <<[k |-> "classic", v |-> 2]>>
    [] OTHER -> << >>

FloatOf(lex) == IF lex = "diversity_score:0.8" THEN Div(4, 5) ELSE Div(0, 1)

TextOf(lex) == IF lex = "summary:s1" THEN <<"s1">> ELSE << >>

\* A variant whose diversity_score default is 0.
ProfileFromDictZeroDefault(ms) ==
  TasteProfile(
    IF HasKey(ms, "favorite_genres") THEN GenresOf(Member(ms, "favorite_genres")) ELSE << >>,
    IF HasKey(ms, "favorite_authors") THEN CountsOf(Member(ms, "favorite_authors")) ELSE << >>,
    IF HasKey(ms, "common_themes") THEN CountsOf(Member(ms, "common_themes")) ELSE << >>,
    IF HasKey(ms, "era_preferences") THEN CountsOf(Member(ms, "era_preferences")) ELSE << >>,
    GetStr(ms, "reading_level", "mixed"),
    IF HasKey(ms, "diversity_score") THEN FloatOf(Member(ms, "diversity_score")) ELSE Div(0, 1),
    IF HasKey(ms, "summary") THEN TextOf(Member(ms, "summary")) ELSE << >>)

\* TasteProfile(favorite_genres=data.get("favorite_genres", {}), ...)
ProfileFromDict(ms) ==
  TasteProfile(
    IF HasKey(ms, "favorite_genres") THEN GenresOf(Member(ms, "favorite_genres")) ELSE << >>,
    IF HasKey(ms, "favorite_authors") THEN CountsOf(Member(ms, "favorite_authors")) ELSE << >>,
    IF HasKey(ms, "common_themes") THEN CountsOf(Member(ms, "common_themes")) ELSE << >>,
    IF HasKey(ms, "era_preferences") THEN CountsOf(Member(ms, "era_preferences")) ELSE << >>,
    GetStr(ms, "reading_level", "mixed"),
    IF HasKey(ms, "diversity_score") THEN FloatOf(Member(ms, "diversity_score")) ELSE Div(1, 2),
    IF HasKey(ms, "summary") THEN TextOf(Member(ms, "summary")) ELSE << >>)

\* ------------------------------------------------- analyze_reading_taste
\* What the function does with the backend's reply (read_books non-empty):
\* exc names the exception that leaves the function, "none" when it returns.
\* A variant that answers a decode error with the sentinel profile instead of
\* the fallback.
ParseProfileNoFallback(v, content, read_books) ==
  LET r == JsonLoads(json_str(v, content, "{", "}"))
  IN  IF ~r.ok THEN [exc |-> "none", profile |-> SentinelProfile]
      ELSE IF r.v.t # "dict" THEN [exc |-> "AttributeError", profile |-> NoProfile]
      ELSE [exc |-> "none", profile |-> ProfileFromDict(r.v.ms)]

ParseProfile(v, content, read_books) ==
  LET r == JsonLoads(json_str(v, content, "{", "}"))
  IN  IF ~r.ok
      THEN \* json.JSONDecodeError, caught: the fallback
           [exc |-> "none", profile |-> create_basic_profile(v, read_books)]
      ELSE IF r.v.t # "dict"
      THEN \* data.get on a value that is no dict; app2 catches only
           \* JSONDecodeError, remd calls data.get after its try block
           [exc |-> "AttributeError", profile |-> NoProfile]
      ELSE [exc |-> "none", profile |-> ProfileFromDict(r.v.ms)]

\* --------------------------------------------------- score_unread_books
\* book_lookup = {b.title: b for b in unread_books}: a later Book with the
\* same title replaces an earlier one.
InLookup(unread_books, title) == \E i \in 1..Len(unread_books) : unread_books[i].title = title

\* A variant in which the first Book with a title keeps the key.
book_lookup_first(unread_books, title) ==
  unread_books[CHOOSE i \in 1..Len(unread_books) :
     /\ unread_books[i].title = title
     /\ \A j \in 1..(i-1) : unread_books[j].title # title]

\* book_lookup = {book.title: book for book in unread_books}; book_lookup[title]
book_lookup(unread_books, title) ==
  unread_books[CHOOSE i \in 1..Len(unread_books) :
     /\ unread_books[i].title = title
     /\ \A j \in (i+1)..Len(unread_books) : unread_books[j].title # title]

\* A variant that clamps overall_score to 100.
BookScoreOfClamped(book, ms) ==
  BookScore(book,
            Min(GetNum(ms, "overall_score", 0), 100),
            GetNum(ms, "genre_match", 0),
            GetNum(ms, "theme_match", 0),
            GetNum(ms, "author_similarity", 0),
            GetNum(ms, "novelty_score", 0),
            GetStr(ms, "reasoning", ""),
            GetStr(ms, "recommendation", "maybe"))

\* BookScore(book=book, overall_score=score_data.get("overall_score", 0), ...)
BookScoreOf(book, ms) ==
  BookScore(book,
            GetNum(ms, "overall_score", 0),
            GetNum(ms, "genre_match", 0),
            GetNum(ms, "theme_match", 0),
            GetNum(ms, "author_similarity", 0),
            GetNum(ms, "novelty_score", 0),
            GetStr(ms, "reasoning", ""),
            GetStr(ms, "recommendation", "maybe"))

\* A variant of the loop that scores an unmatched element against the first
\* unread Book instead of dropping it.
RECURSIVE book_scores_unfiltered(_, _)
book_scores_unfiltered(es, unread_books) ==
  IF es = << >> THEN << >>
  ELSE LET rest  == book_scores_unfiltered(SubSeq(es, 1, Len(es) - 1), unread_books)
           ms    == es[Len(es)].ms
           title == GetStr(ms, "title", "")
       IN  IF InLookup(unread_books, title)
           THEN Append(rest, BookScoreOf(book_lookup(unread_books, title), ms))
           ELSE Append(rest, BookScoreOf(unread_books[1], ms))

\* A variant of the loop that wraps a Book made from the element's title
\* instead of the unread Book found under it.
RECURSIVE book_scores_rebuilt(_, _)
book_scores_rebuilt(es, unread_books) ==
  IF es = << >> THEN << >>
  ELSE LET rest  == book_scores_rebuilt(SubSeq(es, 1, Len(es) - 1), unread_books)
           ms    == es[Len(es)].ms
           title == GetStr(ms, "title", "")
       IN  IF InLookup(unread_books, title)
           THEN Append(rest, BookScoreOf(Book(title, "", None, None), ms))
           ELSE rest

\* The loop over a list of dicts: one BookScore per element whose title is
\* a key of book_lookup, in response order.
RECURSIVE book_scores(_, _)
book_scores(es, unread_books) ==
  IF es = << >> THEN << >>
  ELSE LET rest  == book_scores(SubSeq(es, 1, Len(es) - 1), unread_books)
           ms    == es[Len(es)].ms
           title == GetStr(ms, "title", "")
       IN  IF InLookup(unread_books, title)
           THEN Append(rest, BookScoreOf(book_lookup(unread_books, title), ms))
           ELSE rest

OverallScores(bs) == [i \in 1..Len(bs) |-> bs[i].overall_score]

\* The exception the for loop raises over a parsed value, "none" if none:
\* a number, bool or null is not iterable; iterating a dict gives its keys
\* and iterating a str its characters, which have no .get; so has no element
\* of a list that is not a dict.
LoopExc(val) ==
  CASE val.t \in {"num", "bool", "null"} -> "TypeError"
    [] val.t = "dict" -> IF val.ms = << >> THEN "none" ELSE "AttributeError"
    [] val.t = "str"  -> IF val.lex = "''" THEN "none" ELSE "AttributeError"
    [] val.t = "list" -> IF \E i \in 1..Len(val.es) : val.es[i].t # "dict"
                         THEN "AttributeError" ELSE "none"
    [] OTHER -> "none"

\* A variant in which the decode error is not caught.
ParseScoresUncaught(v, content, unread_books) ==
  LET r == JsonLoads(json_str(v, content, "[", "]"))
  IN  IF ~r.ok
      THEN [exc |-> "JSONDecodeError", scores |-> << >>]
      ELSE IF LoopExc(r.v) # "none"
      THEN [exc |-> LoopExc(r.v), scores |-> << >>]
      ELSE LET bs == book_scores(IF r.v.t = "list" THEN r.v.es ELSE << >>, unread_books)
           IN  [exc |-> "none", scores |-> SortDesc(bs, OverallScores(bs))]

ParseScores(v, content, unread_books) ==
  LET r == JsonLoads(json_str(v, content, "[", "]"))
  IN  IF ~r.ok
      THEN \* json.JSONDecodeError, caught: return []
           [exc |-> "none", scores |-> << >>]
      ELSE IF LoopExc(r.v) # "none"
      THEN [exc |-> LoopExc(r.v), scores |-> << >>]
      ELSE LET bs == book_scores(IF r.v.t = "list" THEN r.v.es ELSE << >>, unread_books)
           IN  [exc |-> "none", scores |-> SortDesc(bs, OverallScores(bs))]

\* ------------------------------------------------------------------ inputs
Variants == {"app2", "remd"}

Catalogue ==
  { Book("A", "X", Some(<<"g1", "g2">>), Some(<<"t1">>)),
    Book("B", "Y", Some(<<"g1">>), None),
    Book("A", "Y", None, Some(<<"t1", "t2">>)) }

ReadLists == SeqsUpTo(Catalogue, MaxRead)

UnreadLists == SeqsUpTo(Catalogue, MaxUnread)

\* top_n as passed by the caller: omitted, None, or a non-negative int.
TopNArgs ==
  { [kind |-> "unset", n |-> 0], [kind |-> "none", n |-> 0] }
    \cup { [kind |-> "int", n |-> k] : k \in 0..MaxTopN }

\* Profiles handed to a direct call of score_unread_books.
ProfileArgs == { SentinelProfile, ProfileFromDict(<<"favorite_genres:G", "summary:s1">>) }

RECURSIVE Concat(_)
Concat(ts) == IF ts = << >> THEN << >> ELSE Head(ts) \o Concat(Tail(ts))

Prose(text) == <<"w">> \o text \o <<"w">>

\* Replies to the profile prompt: JSON objects, JSON of another shape,
\* text that is no JSON, each bare and inside prose.
\* The seven members the profile prompt asks for.
ProfileFields ==
  <<"favorite_genres:G", "favorite_authors:A", "common_themes:T", "era_preferences:E",
    "reading_level:literary", "diversity_score:0.8", "summary:s1">>

\* An object holding any subset of the seven members.
ProfileObjectTexts ==
  { <<"{">> \o SelectSeq(ProfileFields, LAMBDA f : f \in S) \o <<"}">> :
      S \in SUBSET Range(ProfileFields) }

ProfileTexts ==
  ProfileObjectTexts \cup
  { <<"{", "summary:s1", "}", "{", "}">>,
    <<"42">>, <<"null">>, <<"'s'">>, <<"true">>,
    <<"[", "7", "]">>,
    <<"[", "{", "summary:s1", "}", "]">>,
    <<"{", "summary:s1">>,
    <<"}", "{">>,
    <<"w">>,
    << >> }

ProfileReplies == ProfileTexts \cup {Prose(t) : t \in ProfileTexts}

\* Elements of a scoring reply: objects for catalogue titles, an object for
\* a title no Book has, and a number.
ElemTexts ==
  { <<"{", "title:A", "overall_score:40", "}">>,
    <<"{", "title:B", "overall_score:95", "reasoning:r1", "}">>,
    <<"{", "title:B", "overall_score:40", "recommendation:recommended", "}">>,
    <<"{", "title:Z", "overall_score:70", "}">>,
    <<"7">> }

ArrayTexts == { <<"[">> \o Concat(es) \o <<"]">> : es \in SeqsUpTo(ElemTexts, MaxElems) }

ScoreOddTexts ==
  { <<"{", "title:A", "overall_score:40", "}">>,
    <<"{", "}">>,
    <<"42">>, <<"null">>, <<"'s'">>, <<"''">>, <<"true">>,
    <<"[", "{", "title:A">>,
    <<"]", "[">>,
    <<"w">>,
    << >> }

\* A scoring reply with one element holding every field, its overall_score
\* above 100, and one element holding the title alone.
FullScores ==
  <<"[", "{", "title:A", "overall_score:150", "genre_match:10", "theme_match:20",
              "author_similarity:30", "novelty_score:50", "reasoning:r2",
              "recommendation:recommended", "}",
         "{", "title:B", "}", "]">>

ScoreReplies ==
  ArrayTexts \cup ScoreOddTexts \cup {FullScores, Prose(FullScores)}
    \cup {Prose(t) : t \in ScoreOddTexts \cup {a \in ArrayTexts : Len(a) <= 6}}

\* The default of get_recommendations' top_n parameter.
DefaultTopN == 5

\* A variant in which an omitted top_n means no limit.
bound_top_n_unset_is_none(arg) ==
  IF arg.kind = "unset" THEN [kind |-> "none", n |-> 0] ELSE arg

\* top_n as bound inside get_recommendations.
bound_top_n(arg) ==
  IF arg.kind = "unset" THEN [kind |-> "int", n |-> DefaultTopN] ELSE arg

\* A variant of the cut that stops one element early.
TruncatedOneShort(v, scored, arg) ==
  LET t == bound_top_n(arg)
  IN  IF t.kind = "none" THEN scored ELSE Slice(scored, 0, t.n - 1)

\* scored_books[:top_n]
Truncated(v, scored, arg) ==
  LET t == bound_top_n(arg)
  IN  IF t.kind = "none" THEN scored ELSE Slice(scored, 0, t.n)

\* ------------------------------------------------------------ format_output
\* weight a > weight b, for weights held as exact fractions
RatGt(a, b) == a.num * b.den > b.num * a.den

\* sorted(d.items(), key=lambda x: x[1], reverse=True): stable, descending
\* by value; Gt compares two values.
sorted_items(d, Gt(_, _)) ==
  LET rank(i) ==
        Cardinality({j \in 1..Len(d) :
                       Gt(d[j].v, d[i].v) \/ (d[j].v = d[i].v /\ j < i)}) + 1
  IN  [r \in 1..Len(d) |-> d[CHOOSE i \in 1..Len(d) : rank(i) = r]]

\* score.recommendation.upper()
Upper(str) ==
  CASE str = "maybe"       -> "MAYBE"
    [] str = "recommended" -> "RECOMMENDED"
    [] OTHER               -> str

\* The lines format_output writes, by section: one per genre it lists, one
\* per author it lists, one group per scored book.  app2 sorts both
\* mappings by value and keeps five; remd writes them as they stand.
format_output(v, profile, scored) ==
  [genres  |-> IF v = "app2"
               THEN Slice(sorted_items(profile.favorite_genres, RatGt), 0, 5)
               ELSE profile.favorite_genres,
   authors |-> IF profile.favorite_authors = << >> THEN << >>
               ELSE IF v = "app2"
               THEN Slice(sorted_items(profile.favorite_authors, LAMBDA a, b : a > b), 0, 5)
               ELSE profile.favorite_authors,
   books   |-> [i \in 1..Len(scored) |->
                  [n              |-> i,
                   title          |-> scored[i].book.title,
                   author         |-> scored[i].book.author,
                   overall_score  |-> scored[i].overall_score,
                   recommendation |-> Upper(scored[i].recommendation),
                   reasoning      |-> scored[i].reasoning]]]

\* Placeholder held while nothing has been formatted.
NoOutput == [genres |-> << >>, authors |-> << >>, books |-> << >>]

\* ---------------------------------------------------------- format_ocr_text
\* Python values a member of the OCR object decodes to: None, a str, an
\* int or a list of str.
PyNone == [t |-> "NoneType", s |-> "", n |-> 0, l |-> << >>]

PyStr(x) == [t |-> "str", s |-> x, n |-> 0, l |-> << >>]

PyInt(x) == [t |-> "int", s |-> "", n |-> x, l |-> << >>]

PyList(x) == [t |-> "list", s |-> "", n |-> 0, l |-> x]

\* The value json.loads gives each member of the OCR object.
PyOf(lex) ==
  CASE lex = "title:A"        -> PyStr("A")
    [] lex = "title:B"        -> PyStr("B")
    [] lex = "title:null"     -> PyNone
    [] lex = "author:X"       -> PyStr("X")
    [] lex = "author:7"       -> PyInt(7)
    [] lex = "genres:L"       -> PyList(<<"g1", "g2">>)
    [] lex = "genres:null"    -> PyNone
    [] lex = "themes:L"       -> PyList(<<"t1">>)
    [] lex = "themes:'s'"     -> PyStr("s")
    [] lex = "year:1999"      -> PyInt(1999)
    [] lex = "description:d1" -> PyStr("d1")
    [] OTHER                  -> PyNone

\* data.get(key, default)
Get(ms, key, default) == IF HasKey(ms, key) THEN PyOf(Member(ms, key)) ELSE default

\* OCRBookData: every field Optional, default None.
OCRBookData(title, author, genres, themes, year, description) ==
  [title |-> title, author |-> author, genres |-> genres, themes |-> themes,
   year |-> year, description |-> description]

\* OCRBookData()
EmptyOCRBookData == OCRBookData(PyNone, PyNone, PyNone, PyNone, PyNone, PyNone)

\* Placeholder held while format_ocr_text has returned nothing.
NoOCRBookData == EmptyOCRBookData

\* A variant whose genres and themes default to None.
format_ocr_text_none_defaults(content) ==
  LET start == Find(content, "{")
      end   == RFind(content, "}") + 1
  IN  IF start = -1 \/ end = 0
      THEN [exc |-> "none", data |-> EmptyOCRBookData]
      ELSE LET r == JsonLoads(Slice(content, start, end))
           IN  IF ~r.ok THEN [exc |-> "none", data |-> EmptyOCRBookData]
               ELSE IF r.v.t # "dict" THEN [exc |-> "AttributeError", data |-> NoOCRBookData]
               ELSE [exc |-> "none",
                     data |-> OCRBookData(Get(r.v.ms, "title", PyNone),
                                          Get(r.v.ms, "author", PyNone),
                                          Get(r.v.ms, "genres", PyNone),
                                          Get(r.v.ms, "themes", PyNone),
                                          Get(r.v.ms, "year", PyNone),
                                          Get(r.v.ms, "description", PyNone))]

\* format_ocr_text, from the backend's reply on: exc names the exception
\* that leaves the function, "none" when it returns data.
format_ocr_text(content) ==
  LET start == Find(content, "{")
      end   == RFind(content, "}") + 1
  IN  IF start = -1 \/ end = 0
      THEN \* ValueError("No JSON found in response"), caught
           [exc |-> "none", data |-> EmptyOCRBookData]
      ELSE LET r == JsonLoads(Slice(content, start, end))
           IN  IF ~r.ok
               THEN \* json.JSONDecodeError, caught
                    [exc |-> "none", data |-> EmptyOCRBookData]
               ELSE IF r.v.t # "dict"
               THEN \* data.get after the try block on a value that is no dict
                    [exc |-> "AttributeError", data |-> NoOCRBookData]
               ELSE [exc |-> "none",
                     data |-> OCRBookData(Get(r.v.ms, "title", PyNone),
                                          Get(r.v.ms, "author", PyNone),
                                          Get(r.v.ms, "genres", PyList(<< >>)),
                                          Get(r.v.ms, "themes", PyList(<< >>)),
                                          Get(r.v.ms, "year", PyNone),
                                          Get(r.v.ms, "description", PyNone))]

\* The six members the OCR prompt asks for.
OcrFields ==
  <<"title:A", "author:X", "genres:L", "themes:L", "year:1999", "description:d1">>

\* An object holding any subset of the six members.
OcrObjectTexts ==
  { <<"{">> \o SelectSeq(OcrFields, LAMBDA f : f \in S) \o <<"}">> :
      S \in SUBSET Range(OcrFields) }

\* Replies to the OCR prompt: objects, objects with null or mistyped
\* members, JSON of another shape, text that is no JSON.
OcrTexts ==
  OcrObjectTexts \cup
  { <<"{", "title:null", "author:7", "genres:null", "themes:'s'", "}">>,
    <<"{", "title:A", "title:B", "}">>,
    <<"{", "title:A", "}", "{", "title:B", "}">>,
    <<"{", "title:A", "}", "w", "}">>,
    <<"{", "w", "}">>,
    <<"{", "title:A">>,
    <<"title:A", "}">>,
    <<"}", "{">>,
    <<"{">>, <<"}">>,
    <<"[", "{", "title:A", "}", "]">>,
    <<"[", "7", "]">>,
    <<"42">>, <<"null">>, <<"'s'">>,
    <<"w">>,
    << >> }

OcrReplies == OcrTexts \cup {Prose(t) : t \in OcrTexts}

\* ------------------------------------------------- the web app's requests
NoRequest == [route |-> "none", code |-> "", data |-> {}]

NoResponse == [status |-> 0, body |-> "", ran |-> FALSE]

\* --------------------------------------------------------------- the state
VARIABLES
  variant,        \* which analyzer is running: "app2" or "remd"
  entry,          \* the method the caller invoked
  pc,             \* where the call stands
  read_books, unread_books, top_n,    \* the arguments
  content,        \* the backend's reply inside the running method
  taste_profile,  \* the profile returned by analyze_reading_taste / passed in
  scored_books,   \* the list returned by score_unread_books
  recs,           \* the list get_recommendations returns
  calls,          \* backend invocations of this call, in order: the prompt
                  \* sent and whether the backend failed
  exc,            \* the exception that left the call, "none" if none
  constructed,    \* the last Book(...) the caller built: the arguments
                  \* given and the instance obtained
  output,         \* what format_output returned: its genre lines, author
                  \* lines and book lines
  ocr_data,       \* what format_ocr_text returned
  session,        \* the Flask session of the one client: (key, value) pairs
  users,          \* the rows of the users table
  tokens,         \* the access tokens the auth service accepts at present
  request,        \* the last HTTP request: its route and its arguments
  response        \* the response to it

vars == <<variant, entry, pc, read_books, unread_books, top_n, content,
          taste_profile, scored_books, recs, calls, exc, constructed, output,
          ocr_data, session, users, tokens, request, response>>

\* The state of the web application and of the services behind it.
web_vars == <<session, users, tokens, request, response>>

\* The state of the analyzers, the formatter and the Book constructor.
analyzer_vars ==
  <<variant, entry, pc, read_books, unread_books, top_n, content, taste_profile,
    scored_books, recs, calls, exc, constructed, output>>

\* Placeholder held while the caller has built no Book.
NoBook ==
  [args     |-> [title |-> "", author |-> "", genres |-> None, themes |-> None],
   instance |-> BookInstance("", "", Some(<< >>), Some(<< >>))]

NoTopN == [kind |-> "none", n |-> 0]

Init ==
  /\ variant = "app2"
  /\ entry = "none"
  /\ pc = "idle"
  /\ read_books = << >>
  /\ unread_books = << >>
  /\ top_n = NoTopN
  /\ content = << >>
  /\ taste_profile = NoProfile
  /\ scored_books = << >>
  /\ recs = << >>
  /\ calls = << >>
  /\ exc = "none"
  /\ constructed = NoBook
  /\ output = NoOutput
  /\ ocr_data = NoOCRBookData
  /\ session = {}
  /\ users = {}
  /\ tokens = {}
  /\ request = NoRequest
  /\ response = NoResponse

\* Variants without the early return for an empty list.
EnterAnalyzeNoGuard(rb) ==
  /\ pc' = "profile_call"
  /\ taste_profile' = NoProfile

EnterScoreNoGuard(ub) == pc' = "score_call"

\* analyze_reading_taste up to its backend call: an empty read_books
\* returns the sentinel at once.
EnterAnalyze(rb) ==
  IF rb = << >>
  THEN /\ pc' = "profile_done"
       /\ taste_profile' = SentinelProfile
  ELSE /\ pc' = "profile_call"
       /\ taste_profile' = NoProfile

\* score_unread_books up to its backend call: an empty unread_books returns
\* [] at once.
EnterScore(ub) ==
  IF ub = << >>
  THEN pc' = "score_done"
  ELSE pc' = "score_call"

\* analyzer.get_recommendations(read_books, unread_books, top_n)
get_recommendations ==
  /\ pc = "idle"
  /\ \E v \in Variants, rb \in ReadLists, ub \in UnreadLists, tn \in TopNArgs :
       /\ variant' = v
       /\ entry' = "get_recommendations"
       /\ read_books' = rb
       /\ unread_books' = ub
       /\ top_n' = tn
       /\ EnterAnalyze(rb)
  /\ UNCHANGED <<web_vars, ocr_data, constructed, output, content, scored_books, recs, calls, exc>>

\* analyzer.analyze_reading_taste(read_books)
analyze_reading_taste ==
  /\ pc = "idle"
  /\ \E v \in Variants, rb \in ReadLists :
       /\ variant' = v
       /\ entry' = "analyze_reading_taste"
       /\ read_books' = rb
       /\ EnterAnalyze(rb)
  /\ UNCHANGED <<web_vars, ocr_data, constructed, output, unread_books, top_n, content, scored_books, recs, calls, exc>>

\* analyzer.score_unread_books(taste_profile, unread_books)
score_unread_books ==
  /\ pc = "idle"
  /\ \E v \in Variants, tp \in ProfileArgs, ub \in UnreadLists :
       /\ variant' = v
       /\ entry' = "score_unread_books"
       /\ taste_profile' = tp
       /\ unread_books' = ub
       /\ EnterScore(ub)
  /\ UNCHANGED <<web_vars, ocr_data, constructed, output, read_books, top_n, content, scored_books, recs, calls, exc>>

\* The profile prompt's backend call returns text; the rest of
\* analyze_reading_taste runs.
ProfileReply(replies) ==
  /\ pc = "profile_call"
  /\ calls' = Append(calls, [stage |-> "profile", failed |-> FALSE])
  /\ \E text \in replies :
       /\ content' = text
       /\ LET r == ParseProfile(variant, text, read_books)
          IN  /\ exc' = r.exc
              /\ taste_profile' = r.profile
              /\ pc' = IF r.exc = "none" THEN "profile_done" ELSE "raised"
  /\ UNCHANGED <<web_vars, ocr_data, constructed, output, variant, entry, read_books, unread_books, top_n, scored_books, recs>>

\* The backend call of the profile prompt fails: client.messages.create /
\* ollama.chat raise outside any try block.
ProfileError ==
  /\ pc = "profile_call"
  /\ calls' = Append(calls, [stage |-> "profile", failed |-> TRUE])
  /\ exc' = "GenerationError"
  /\ pc' = "raised"
  /\ UNCHANGED <<web_vars, ocr_data, constructed, output, variant, entry, read_books, unread_books, top_n, content,
                 taste_profile, scored_books, recs>>

\* get_recommendations goes on to score_unread_books(taste_profile, unread_books).
StartScoring ==
  /\ pc = "profile_done"
  /\ entry = "get_recommendations"
  /\ content' = << >>
  /\ EnterScore(unread_books)
  /\ UNCHANGED <<web_vars, ocr_data, constructed, output, variant, entry, read_books, unread_books, top_n, taste_profile,
                 scored_books, recs, calls, exc>>

\* The scoring prompt's backend call returns text; the rest of
\* score_unread_books runs.
ScoreReply(replies) ==
  /\ pc = "score_call"
  /\ calls' = Append(calls, [stage |-> "score", failed |-> FALSE])
  /\ \E text \in replies :
       /\ content' = text
       /\ LET r == ParseScores(variant, text, unread_books)
          IN  /\ exc' = r.exc
              /\ scored_books' = r.scores
              /\ pc' = IF r.exc = "none" THEN "score_done" ELSE "raised"
  /\ UNCHANGED <<web_vars, ocr_data, constructed, output, variant, entry, read_books, unread_books, top_n, taste_profile, recs>>

\* The backend call of the scoring prompt fails.
ScoreError ==
  /\ pc = "score_call"
  /\ calls' = Append(calls, [stage |-> "score", failed |-> TRUE])
  /\ exc' = "GenerationError"
  /\ pc' = "raised"
  /\ UNCHANGED <<web_vars, ocr_data, constructed, output, variant, entry, read_books, unread_books, top_n, content,
                 taste_profile, scored_books, recs>>

\* get_recommendations cuts the scored list to top_n and returns.
Truncate ==
  /\ pc = "score_done"
  /\ entry = "get_recommendations"
  /\ recs' = Truncated(variant, scored_books, top_n)
  /\ pc' = "done"
  /\ UNCHANGED <<web_vars, ocr_data, constructed, output, variant, entry, read_books, unread_books, top_n, content,
                 taste_profile, scored_books, calls, exc>>

\* The call is over (returned or raised); the analyzer keeps nothing.
Finished ==
  \/ pc \in {"done", "raised"}
  \/ pc = "profile_done" /\ entry = "analyze_reading_taste"
  \/ pc = "score_done" /\ entry = "score_unread_books"

Return ==
  /\ Finished
  /\ variant' = "app2"
  /\ entry' = "none"
  /\ pc' = "idle"
  /\ read_books' = << >>
  /\ unread_books' = << >>
  /\ top_n' = NoTopN
  /\ content' = << >>
  /\ taste_profile' = NoProfile
  /\ scored_books' = << >>
  /\ recs' = << >>
  /\ calls' = << >>
  /\ exc' = "none"
  /\ constructed' = NoBook
  /\ output' = NoOutput
  /\ ocr_data' = NoOCRBookData
  /\ UNCHANGED web_vars

\* Replies the backend gives inside a get_recommendations call: for each
\* prompt an answer of the asked shape (bare and inside prose), JSON of
\* another shape, and text that is no JSON.
PipelineProfileReplies ==
  { <<"{", "favorite_genres:G", "favorite_authors:A", "reading_level:literary", "summary:s1", "}">>,
    Prose(<<"{", "}">>),
    <<"42">>,
    <<"w">> }

\* A scoring reply longer than the default top_n: the backend scores the
\* same titles more than once.
SixScores ==
  <<"[", "{", "title:A", "overall_score:95", "}",
         "{", "title:B", "overall_score:70", "}",
         "{", "title:A", "overall_score:70", "reasoning:r1", "}",
         "{", "title:B", "overall_score:40", "}",
         "{", "title:A", "overall_score:40", "}",
         "{", "title:B", "overall_score:40", "}", "]">>

PipelineScoreReplies ==
  { <<"[", "{", "title:A", "overall_score:40", "}",
           "{", "title:B", "overall_score:95", "reasoning:r1", "}", "]">>,
    Prose(<<"[", "{", "title:B", "overall_score:40", "recommendation:recommended", "}",
                 "{", "title:Z", "overall_score:70", "}",
                 "{", "title:A", "overall_score:40", "}", "]">>),
    SixScores,
    <<"[", "]">>,
    <<"[", "{", "title:A", "overall_score:40", "}", "7", "]">>,
    <<"{", "title:A", "overall_score:40", "}">>,
    <<"null">>,
    <<"w">> }

\* A caller running the whole pipeline.
Next ==
  \/ get_recommendations
  \/ ProfileReply(PipelineProfileReplies)
  \/ ProfileError
  \/ StartScoring
  \/ ScoreReply(PipelineScoreReplies)
  \/ ScoreError
  \/ Truncate
  \/ Return

Spec == Init /\ [][Next]_vars

\* A caller of analyze_reading_taste alone, over every profile reply.
NextProfile ==
  \/ analyze_reading_taste
  \/ ProfileReply(ProfileReplies)
  \/ ProfileError
  \/ Return

SpecProfile == Init /\ [][NextProfile]_vars

\* A caller of score_unread_books alone, over every scoring reply.
NextScore ==
  \/ score_unread_books
  \/ ScoreReply(ScoreReplies)
  \/ ScoreError
  \/ Return

SpecScore == Init /\ [][NextScore]_vars

\* A caller of either method alone, over every reply.
NextParse ==
  \/ analyze_reading_taste
  \/ score_unread_books
  \/ ProfileReply(ProfileReplies)
  \/ ProfileError
  \/ ScoreReply(ScoreReplies)
  \/ ScoreError
  \/ Return

SpecParse == Init /\ [][NextParse]_vars

\* Read books handed to _create_basic_profile: the catalogue and books
\* that together carry more than five distinct genres.
BasicCatalogue ==
  Catalogue \cup
  { Book("P", "X", Some(<<"g1", "g2", "g3", "g4", "g5">>), Some(<<"t1">>)),
    Book("Q", "Z", Some(<<"g6", "g1">>), Some(<<"t2">>)),
    Book("R", "Z", Some(<<"g6", "g7">>), None),
    Book("S", "W", Some(<<"g2">>), Some(<<"t3", "t1">>)) }

\* A longer shelf: six authors, eight genres and six themes, the most
\* frequent of each met last.
LongShelf ==
  << Book("P", "X", Some(<<"g1", "g2", "g3", "g4", "g5">>), Some(<<"t1">>)),
     Book("B", "Y", Some(<<"g1">>), None),
     Book("Q", "Z", Some(<<"g6", "g1">>), Some(<<"t2">>)),
     Book("S", "W", Some(<<"g2">>), Some(<<"t3", "t1">>)),
     Book("T", "V", Some(<<"g7">>), Some(<<"t4", "t5">>)),
     Book("U", "U", Some(<<"g8">>), Some(<<"t6">>)),
     Book("V", "U", Some(<<"g8", "g8">>), Some(<<"t6", "t6">>)) >>

\* Three books whose genres occur 3, 2 and 1 times.
ThreeShelf ==
  << Book("C", "X", Some(<<"g1", "g2", "g3">>), None),
     Book("A", "X", Some(<<"g1", "g2">>), Some(<<"t1">>)),
     Book("B", "Y", Some(<<"g1">>), None) >>

\* Four books whose genres occur 3, 3, 3 and 4 times.
FourShelf ==
  << Book("D", "X", Some(<<"g1", "g2", "g3", "g4">>), None),
     Book("D", "X", Some(<<"g1", "g2", "g3", "g4">>), None),
     Book("D", "X", Some(<<"g1", "g2", "g3", "g4">>), None),
     Book("E", "Y", Some(<<"g4">>), None) >>

BasicLists ==
  (SeqsUpTo(BasicCatalogue, MaxRead) \ {<< >>}) \cup {LongShelf, ThreeShelf, FourShelf}

\* analyzer._create_basic_profile(read_books)
CreateBasicProfile ==
  /\ pc = "idle"
  /\ \E v \in Variants, rb \in BasicLists :
       /\ variant' = v
       /\ entry' = "_create_basic_profile"
       /\ read_books' = rb
       /\ taste_profile' = create_basic_profile(v, rb)
  /\ pc' = "done"
  /\ UNCHANGED <<web_vars, ocr_data, constructed, output, unread_books, top_n, content, scored_books, recs, calls, exc>>

\* A caller of _create_basic_profile alone.
NextBasic ==
  \/ CreateBasicProfile
  \/ Return

SpecBasic == Init /\ [][NextBasic]_vars

\* Arguments a caller gives the Book constructor: genres and themes left
\* out or None, an empty list, or a list of names.
BookTitles == {"A", "B", "P"}

BookAuthors == {"X", "Y", "Z"}

GenreArgs == {None, Some(<< >>), Some(<<"g1">>), Some(<<"g1", "g2">>)}

ThemeArgs == {None, Some(<< >>), Some(<<"t1">>), Some(<<"t1", "t2">>)}

\* Book(title, author, genres, themes)
NewBook ==
  /\ pc = "idle"
  /\ \E t \in BookTitles, a \in BookAuthors, g \in GenreArgs, th \in ThemeArgs :
       constructed' = [args     |-> [title |-> t, author |-> a, genres |-> g, themes |-> th],
                       instance |-> BookInstance(t, a, g, th)]
  /\ entry' = "Book"
  /\ pc' = "done"
  /\ UNCHANGED <<variant, read_books, unread_books, top_n, content, taste_profile,
                 scored_books, recs, calls, exc, output, web_vars, ocr_data>>

\* A caller constructing Books.
NextBook ==
  \/ NewBook
  \/ Return

SpecBook == Init /\ [][NextBook]_vars

\* Profiles handed to format_output: favorite_genres is any mapping over
\* six weighted genres, in any insertion order; favorite_authors is empty,
\* short, or six authors in no order.
GenreEntries ==
  { [k |-> "g1", v |-> Div(1, 10)], [k |-> "g2", v |-> Div(3, 10)],
    [k |-> "g3", v |-> Div(1, 5)],  [k |-> "g4", v |-> Div(1, 5)],
    [k |-> "g5", v |-> Div(3, 20)], [k |-> "g6", v |-> Div(1, 20)] }

FormatGenres ==
  { d \in SeqsUpTo(GenreEntries, 2) \cup [1..Cardinality(GenreEntries) -> GenreEntries] :
      \A i, j \in 1..Len(d) : d[i] = d[j] => i = j }

FormatAuthors ==
  { << >>,
    <<[k |-> "X", v |-> 1], [k |-> "Y", v |-> 3]>>,
    <<[k |-> "X", v |-> 1], [k |-> "Y", v |-> 3], [k |-> "Z", v |-> 2],
      [k |-> "W", v |-> 1], [k |-> "V", v |-> 5], [k |-> "U", v |-> 2]>> }

FormatScores ==
  { << >>,
    <<BookScore(Book("A", "X", None, None), 95, 10, 20, 30, 50, "r1", "recommended"),
      BookScore(Book("B", "Y", None, None), 40, 0, 0, 0, 0, "", "maybe")>> }

\* format_output(taste_profile, scored_books)
FormatOutput ==
  /\ pc = "idle"
  /\ \E v \in Variants, fg \in FormatGenres, fa \in FormatAuthors, sb \in FormatScores :
       LET tp == TasteProfile(fg, fa, << >>, << >>, "mixed", Div(1, 2), <<"s1">>)
       IN  /\ variant' = v
           /\ taste_profile' = tp
           /\ scored_books' = sb
           /\ output' = format_output(v, tp, sb)
  /\ entry' = "format_output"
  /\ pc' = "done"
  /\ UNCHANGED <<read_books, unread_books, top_n, content, recs, calls, exc, constructed,
                 web_vars, ocr_data>>

\* A caller of format_output alone.
NextFormat ==
  \/ FormatOutput
  \/ Return

SpecFormat == Init /\ [][NextFormat]_vars

\* ------------------------------------------------------------ the web app
\* What the auth service knows: each authorization code names a user and the
\* session (access token, refresh token) an exchange of it yields.
AuthUsers ==
  {[id |-> "u1", email |-> "e1", full_name |-> "n1", avatar_url |-> "a1", provider |-> "google"],
   [id |-> "u2", email |-> "e2", full_name |-> "n2", avatar_url |-> "a2", provider |-> "google"]}

\* request.args.get('code'): absent (""), codes of the two users, a bad code.
Codes == {"", "code1", "code2", "bad"}

\* supabase.auth.exchange_code_for_session: the reply to a good code.
exchange_code_for_session(code) ==
  LET u == CHOOSE a \in AuthUsers : a.id = (IF code = "code1" THEN "u1" ELSE "u2")
  IN  [session |-> [access_token |-> IF code = "code1" THEN "at1" ELSE "at2",
                    refresh_token |-> IF code = "code1" THEN "rt1" ELSE "rt2"],
       user |-> u]

\* datetime.utcnow().isoformat()
Times == {"t1"}

\* 'key' in session
SessionHas(s, k) == \E p \in s : p[1] = k

\* session['key']
SessionGet(s, k) == (CHOOSE p \in s : p[1] = k)[2]

\* session['key'] = value
SessionSet(s, k, v) == {p \in s : p[1] # k} \cup {<<k, v>>}

\* The columns of the users table; a column never written holds "null".
Columns ==
  {"id", "email", "full_name", "avatar_url", "bio", "phone", "provider",
   "created_at", "last_login", "updated_at"}

\* table.update(update_data).eq('id', id): every row whose id matches takes
\* the values of update_data, the other rows and columns stay.
TableUpdate(table, update_data, id) ==
  {IF r.id = id
     THEN [c \in Columns |->
             IF \E p \in update_data : p[1] = c
               THEN (CHOOSE p \in update_data : p[1] = c)[2]
               ELSE r[c]]
     ELSE r : r \in table}

\* table.insert(user_data): the columns not given are null.
TableInsert(table, user_data) ==
  table \cup {[c \in Columns |->
                 IF \E p \in user_data : p[1] = c
                   THEN (CHOOSE p \in user_data : p[1] = c)[2]
                   ELSE "null"]}

\* get_or_create_user: the table after it returned.
get_or_create_user(table, auth_user, now) ==
  IF \E r \in table : r.id = auth_user.id
    THEN TableUpdate(table, {<<"last_login", now>>, <<"email", auth_user.email>>}, auth_user.id)
    ELSE TableInsert(table,
           {<<"id", auth_user.id>>, <<"email", auth_user.email>>,
            <<"full_name", auth_user.full_name>>, <<"avatar_url", auth_user.avatar_url>>,
            <<"provider", auth_user.provider>>, <<"created_at", now>>,
            <<"last_login", now>>})

allowed_fields == {"full_name", "avatar_url", "bio", "phone"}

\* update_user_profile with every supplied key written.
update_user_profile_unfiltered(table, user_id, profile_data, now) ==
  TableUpdate(table, profile_data \cup {<<"updated_at", now>>}, user_id)

\* update_user_profile: the table after it returned.
update_user_profile(table, user_id, profile_data, now) ==
  LET update_data == {p \in profile_data : p[1] \in allowed_fields}
  IN  TableUpdate(table, update_data \cup {<<"updated_at", now>>}, user_id)

\* request.get_json(): the bodies a client sends to /api/user/update.
Payloads ==
  {{},
   {<<"bio", "b9">>},
   {<<"full_name", "n9">>, <<"id", "u2">>, <<"email", "e9">>, <<"provider", "p9">>,
    <<"created_at", "t9">>, <<"last_login", "t9">>, <<"updated_at", "t9">>}}

Redirect(location, ran) == [status |-> 302, body |-> location, ran |-> ran]

Reply(status, body, ran) == [status |-> status, body |-> body, ran |-> ran]

\* login_required with the token never shown to the auth service.
login_required_unvalidated(sess, valid) ==
  IF ~SessionHas(sess, "access_token")
    THEN [run |-> FALSE, session |-> sess]
    ELSE [run |-> TRUE, session |-> sess]

\* login_required: whether the wrapped handler runs, and the session it or
\* the redirect leaves.  valid is the set of tokens get_user accepts.
login_required(sess, valid) ==
  IF ~SessionHas(sess, "access_token")
    THEN [run |-> FALSE, session |-> sess]
    ELSE IF SessionGet(sess, "access_token") \notin valid
      THEN [run |-> FALSE, session |-> {}]
      ELSE [run |-> TRUE, session |-> sess]

\* GET /auth/callback
auth_callback ==
  \E code \in Codes, outcome \in {"ok", "exchange_failed", "db_failed"}, now \in Times :
    /\ request' = [route |-> "/auth/callback", code |-> code, data |-> {}]
    /\ IF code = ""
         THEN /\ response' = Reply(400, "No authorization code provided", TRUE)
              /\ UNCHANGED <<session, users, tokens>>
         ELSE IF code = "bad" \/ outcome = "exchange_failed"
           THEN /\ response' = Reply(400, "Authentication error", TRUE)
                /\ UNCHANGED <<session, users, tokens>>
           ELSE LET r == exchange_code_for_session(code)
                IN  /\ tokens' = tokens \cup {r.session.access_token}
                    /\ session' =
                         SessionSet(
                           SessionSet(
                             SessionSet(session, "access_token", r.session.access_token),
                             "refresh_token", r.session.refresh_token),
                           "user_id", r.user.id)
                    /\ IF outcome = "db_failed"
                         THEN /\ response' = Reply(400, "Authentication error", TRUE)
                              /\ UNCHANGED users
                         ELSE /\ users' = get_or_create_user(users, r.user, now)
                              /\ response' = Redirect("/dashboard", TRUE)
    /\ UNCHANGED <<analyzer_vars, ocr_data>>

\* GET /dashboard
dashboard ==
  \E db_ok \in BOOLEAN :
    LET g == login_required(session, tokens)
    IN  /\ request' = [route |-> "/dashboard", code |-> "", data |-> {}]
        /\ IF ~g.run
             THEN /\ session' = g.session
                  /\ response' = Redirect("/login", FALSE)
             ELSE IF db_ok
               THEN /\ response' = Reply(200, "dashboard", TRUE)
                    /\ UNCHANGED session
               ELSE /\ session' = {}
                    /\ response' = Redirect("/login", TRUE)
        /\ UNCHANGED <<users, tokens, analyzer_vars, ocr_data>>

\* GET /api/user
api_user ==
  \E db_ok \in BOOLEAN :
    LET g == login_required(session, tokens)
    IN  /\ request' = [route |-> "/api/user", code |-> "", data |-> {}]
        /\ session' = g.session
        /\ response' =
             IF ~g.run THEN Redirect("/login", FALSE)
             ELSE IF ~db_ok THEN Reply(401, "error", TRUE)
             ELSE IF \E r \in users : r.id = SessionGet(session, "user_id")
               THEN Reply(200, "user", TRUE)
               ELSE Reply(404, "User not found", TRUE)
        /\ UNCHANGED <<users, tokens, analyzer_vars, ocr_data>>

\* PUT /api/user/update
api_update_user ==
  \E data \in Payloads, db_ok \in BOOLEAN, now \in Times :
    LET g == login_required(session, tokens)
    IN  /\ request' = [route |-> "/api/user/update", code |-> "", data |-> data]
        /\ session' = g.session
        /\ IF ~g.run
             THEN /\ response' = Redirect("/login", FALSE)
                  /\ UNCHANGED users
             ELSE IF ~db_ok
               THEN /\ response' = Reply(400, "error", TRUE)
                    /\ UNCHANGED users
               ELSE /\ users' = update_user_profile(users, SessionGet(session, "user_id"), data, now)
                    /\ response' = Reply(200, "updated", TRUE)
        /\ UNCHANGED <<tokens, analyzer_vars, ocr_data>>

\* GET /logout
logout ==
  /\ request' = [route |-> "/logout", code |-> "", data |-> {}]
  /\ session' = {}
  /\ response' = Redirect("/login", TRUE)
  /\ UNCHANGED <<users, tokens, analyzer_vars, ocr_data>>

\* The auth service stops accepting a token (expiry, revocation).
TokenExpires ==
  \E t \in tokens :
    /\ tokens' = tokens \ {t}
    /\ UNCHANGED <<session, users, request, response, analyzer_vars, ocr_data>>

NextAuth ==
  \/ auth_callback
  \/ dashboard
  \/ api_user
  \/ api_update_user
  \/ logout
  \/ TokenExpires

SpecAuth == Init /\ [][NextAuth]_vars

\* format_ocr_text(ocr_text) with the backend answering.
FormatOcrText ==
  /\ pc = "idle"
  /\ \E reply \in OcrReplies :
       LET r == format_ocr_text(reply)
       IN  /\ content' = reply
           /\ ocr_data' = r.data
           /\ exc' = r.exc
           /\ pc' = IF r.exc = "none" THEN "done" ELSE "raised"
  /\ entry' = "format_ocr_text"
  /\ UNCHANGED <<variant, read_books, unread_books, top_n, taste_profile, scored_books,
                 recs, calls, constructed, output, web_vars>>

\* format_ocr_text(ocr_text) with ollama.chat raising.
OcrChatError ==
  /\ pc = "idle"
  /\ entry' = "format_ocr_text"
  /\ exc' = "GenerationError"
  /\ pc' = "raised"
  /\ UNCHANGED <<variant, read_books, unread_books, top_n, content, taste_profile,
                 scored_books, recs, calls, constructed, output, ocr_data, web_vars>>

NextOcr ==
  \/ FormatOcrText
  \/ OcrChatError
  \/ Return

SpecOcr == Init /\ [][NextOcr]_vars

TypeOK ==
  /\ variant \in Variants
  /\ pc \in {"idle", "profile_call", "profile_done", "score_call", "score_done", "done", "raised"}
  /\ exc \in {"none", "GenerationError", "AttributeError", "TypeError"}
  /\ Len(calls) <= 2

\* ------------------------------------------------------------------ claims
LastCall == calls[Len(calls)]

\* The last backend invocation was the named prompt and it returned text
\* (content holds that text) / it failed.
Replied(stage) == calls # << >> /\ LastCall.stage = stage /\ ~LastCall.failed

Failed(stage) == calls # << >> /\ LastCall.stage = stage /\ LastCall.failed

\* What json.loads makes of the text extracted from the current reply.
ProfileJson == JsonLoads(json_str(variant, content, "{", "}"))

ScoresJson == JsonLoads(json_str(variant, content, "[", "]"))

\* What json.loads makes of the whole reply.
WholeJson == JsonLoads(content)

\* score_unread_books has returned after a backend reply.
ScoreReturned == Replied("score") /\ pc \in {"score_done", "done"}

ElemTitle(e) == GetStr(e.ms, "title", "")

Titles(books) == {books[i].title : i \in 1..Len(books)}

\* Positions of the response elements es whose title some unread Book has.
MatchedIdx(es) ==
  {i \in 1..Len(es) : es[i].t = "dict" /\ ElemTitle(es[i]) \in Titles(unread_books)}

\* BookScore bs carries the title, score and texts of response element e.
FromElem(bs, e) ==
  /\ bs.book.title = ElemTitle(e)
  /\ bs.overall_score = GetNum(e.ms, "overall_score", 0)
  /\ bs.reasoning = GetStr(e.ms, "reasoning", "")
  /\ bs.recommendation = GetStr(e.ms, "recommendation", "maybe")

\* C1: get_recommendations never raises, whether the backend call fails or
\* returns any text, in the profile step or in the scoring step.
C1_NeverRaises == entry = "get_recommendations" => pc # "raised"

\* C2: when the profile prompt's backend call fails, analyze_reading_taste
\* returns the fallback profile _create_basic_profile(read_books).
C2_GenerationErrorGivesFallback ==
  Failed("profile") =>
    /\ pc = "profile_done"
    /\ exc = "none"
    /\ taste_profile = create_basic_profile(variant, read_books)

\* C3: when the scoring prompt's backend call fails, score_unread_books
\* returns an empty list.
C3_GenerationErrorGivesEmpty ==
  Failed("score") =>
    /\ pc = "score_done"
    /\ exc = "none"
    /\ scored_books = << >>

\* C4: a reply that is valid JSON of the wrong shape never raises: a
\* non-object profile reply gives the fallback profile, a scoring reply that
\* is no array or holds an element that is no object gives an empty list.
C4_WrongShapeIsParseFailure ==
  /\ (Replied("profile") /\ WholeJson.ok /\ WholeJson.v.t # "dict") =>
       /\ pc = "profile_done"
       /\ taste_profile = create_basic_profile(variant, read_books)
  /\ (/\ Replied("score")
      /\ WholeJson.ok
      /\ \/ WholeJson.v.t # "list"
         \/ \E i \in 1..Len(WholeJson.v.es) : WholeJson.v.es[i].t # "dict") =>
       /\ pc \in {"score_done", "done"}
       /\ scored_books = << >>

\* C5: for a non-empty read_books and a reply whose extracted text is no
\* JSON, analyze_reading_taste returns _create_basic_profile(read_books) and
\* the backend has been invoked once only.
C5_UnparseableGivesFallback ==
  (Replied("profile") /\ ~ProfileJson.ok) =>
    /\ read_books # << >>
    /\ pc = "profile_done"
    /\ exc = "none"
    /\ taste_profile = create_basic_profile(variant, read_books)
    /\ Len(calls) = 1

C5_Witness ==
  /\ Replied("profile")
  /\ ~ProfileJson.ok
  /\ pc = "profile_done"
  /\ variant = "app2"
  /\ content = <<"w", "{", "summary:s1", "w">>
  /\ Len(read_books) = 2
  /\ taste_profile.favorite_genres # << >>

\* C6: for a non-empty unread_books and a reply whose extracted text is no
\* JSON, score_unread_books returns an empty list and raises nothing.
C6_UnparseableGivesEmpty ==
  (Replied("score") /\ ~ScoresJson.ok) =>
    /\ unread_books # << >>
    /\ pc = "score_done"
    /\ exc = "none"
    /\ scored_books = << >>

C6_Witness ==
  /\ Replied("score")
  /\ ~ScoresJson.ok
  /\ pc = "score_done"
  /\ content = <<"[", "{", "title:A">>
  /\ Len(unread_books) = 2

\* C7: analyze_reading_taste with an empty read_books returns the sentinel
\* profile without invoking the backend, in both analyzers.
C7_EmptyReadGivesSentinel ==
  (entry = "analyze_reading_taste" /\ read_books = << >>) =>
    /\ pc = "profile_done"
    /\ exc = "none"
    /\ calls = << >>
    /\ taste_profile = [favorite_genres  |-> << >>,
                        favorite_authors |-> << >>,
                        common_themes    |-> << >>,
                        era_preferences  |-> << >>,
                        reading_level    |-> "unknown",
                        diversity_score  |-> [num |-> 0, den |-> 1],
                        summary          |-> <<"No books read yet.">>]

C7_Witness ==
  /\ entry = "analyze_reading_taste"
  /\ variant = "remd"
  /\ read_books = << >>
  /\ pc = "profile_done"
  /\ taste_profile.reading_level = "unknown"

\* C8: score_unread_books with an empty unread_books returns an empty list
\* without invoking the backend, whatever the taste profile.
C8_EmptyUnreadGivesEmpty ==
  (entry = "score_unread_books" /\ unread_books = << >>) =>
    /\ pc = "score_done"
    /\ exc = "none"
    /\ calls = << >>
    /\ scored_books = << >>

C8_Witness ==
  /\ entry = "score_unread_books"
  /\ unread_books = << >>
  /\ pc = "score_done"
  /\ taste_profile.favorite_genres # << >>

\* C9: the list score_unread_books returns holds the matched response
\* elements in non-increasing order of overall_score, and entries with equal
\* overall_score stand in the order of their elements in the response array.
C9_StableDescendingSort ==
  ScoreReturned =>
    LET r == ScoresJson
        es == r.v.es
        n == Len(scored_books)
    IN  (r.ok /\ r.v.t = "list") =>
          /\ \A j \in 1..(n - 1) :
               scored_books[j].overall_score >= scored_books[j + 1].overall_score
          /\ n = Cardinality(MatchedIdx(es))
          /\ \E p \in [1..n -> MatchedIdx(es)] :
               /\ \A j \in 1..n : FromElem(scored_books[j], es[p[j]])
               /\ \A j, k \in 1..n :
                    j < k =>
                      /\ p[j] # p[k]
                      /\ scored_books[j].overall_score = scored_books[k].overall_score
                           => p[j] < p[k]

\* A 95 that came second in the response leads; the two 40s keep their order.
C9_Witness ==
  /\ ScoreReturned
  /\ content = <<"[", "{", "title:A", "overall_score:40", "}",
                      "{", "title:B", "overall_score:95", "reasoning:r1", "}",
                      "{", "title:B", "overall_score:40", "recommendation:recommended", "}",
                 "]">>
  /\ Len(scored_books) = 3
  /\ scored_books[1].overall_score = 95
  /\ scored_books[2].book.title = "A"
  /\ scored_books[3].book.title = "B"

\* C10: a response element whose title no unread Book has is dropped: the
\* call returns, and the list holds exactly the matched elements.
C10_UnmatchedDropped ==
  Replied("score") =>
    LET r == ScoresJson
        es == r.v.es
        matched == MatchedIdx(es)
    IN  (r.ok /\ r.v.t = "list" /\ \A i \in 1..Len(es) : es[i].t = "dict") =>
          /\ pc \in {"score_done", "done"}
          /\ exc = "none"
          /\ Len(scored_books) = Cardinality(matched)
          /\ \A j \in 1..Len(scored_books) :
               /\ scored_books[j].book.title \in Titles(unread_books)
               /\ \E i \in matched : FromElem(scored_books[j], es[i])
          /\ \A i \in matched :
               \E j \in 1..Len(scored_books) : FromElem(scored_books[j], es[i])

C10_Witness ==
  /\ ScoreReturned
  /\ ScoresJson.ok
  /\ ScoresJson.v.t = "list"
  /\ Len(ScoresJson.v.es) = 3
  /\ ElemTitle(ScoresJson.v.es[2]) = "Z"
  /\ Len(scored_books) = 2
  /\ \A j \in 1..2 : scored_books[j].book.title # "Z"

\* C11: get_recommendations called with a non-negative integer top_n
\* returns exactly the first min(top_n, n) of the n scored books, in the
\* order scoring produced; called with top_n = None it returns all n.
C11_TopNPrefix ==
  (entry = "get_recommendations" /\ pc = "done") =>
    /\ top_n.kind = "none" => recs = scored_books
    /\ top_n.kind = "int" =>
         /\ Len(recs) = Min(top_n.n, Len(scored_books))
         /\ \A i \in 1..Len(recs) : recs[i] = scored_books[i]

C11_Witness ==
  /\ entry = "get_recommendations"
  /\ pc = "done"
  /\ top_n = [kind |-> "int", n |-> 1]
  /\ Len(scored_books) = 2
  /\ recs = <<scored_books[1]>>

\* C12 (as the specification states it): get_recommendations called
\* without top_n returns every scored book, however many were scored.
C12_UnsetReturnsAll ==
  (entry = "get_recommendations" /\ pc = "done" /\ top_n.kind = "unset") =>
    recs = scored_books

\* C12: get_recommendations called without top_n binds top_n to its default
\* of 5 and returns the first min(5, n) of the n scored books; it returns
\* every scored book only when n <= 5.
C12_UnsetReturnsFirstFive ==
  (entry = "get_recommendations" /\ pc = "done" /\ top_n.kind = "unset") =>
    /\ Len(recs) = Min(5, Len(scored_books))
    /\ \A i \in 1..Len(recs) : recs[i] = scored_books[i]

C12_Witness ==
  /\ entry = "get_recommendations"
  /\ pc = "done"
  /\ top_n.kind = "unset"
  /\ Len(scored_books) = 6
  /\ Len(recs) = 5

\* The orders in which n books can be handed over.
Perms(n) == {p \in [1..n -> 1..n] : \A i, j \in 1..n : p[i] = p[j] => i = j}

Permuted(books, p) == [i \in 1..Len(books) |-> books[p[i]]]

\* A Counter or dict read as a mapping, its order set aside.
AsMap(d) == {<<d[i].k, d[i].v>> : i \in 1..Len(d)}

BasicProfileReturned == entry = "_create_basic_profile" /\ pc = "done"

\* C13 (as the specification states it): _create_basic_profile returns,
\* for every permutation of the read books, the same favorite_genres keys
\* and weights, the same favorite_authors and common_themes counts, the
\* same diversity_score and the same summary.
C13_OrderIndependent ==
  BasicProfileReturned =>
    \A p \in Perms(Len(read_books)) :
      LET q == create_basic_profile(variant, Permuted(read_books, p))
      IN  /\ AsMap(q.favorite_genres) = AsMap(taste_profile.favorite_genres)
          /\ AsMap(q.favorite_authors) = AsMap(taste_profile.favorite_authors)
          /\ AsMap(q.common_themes) = AsMap(taste_profile.common_themes)
          /\ q.diversity_score = taste_profile.diversity_score
          /\ q.summary = taste_profile.summary

\* C14: when the profile reply parses to a JSON object,
\* analyze_reading_taste returns a TasteProfile in which every field the
\* object holds is the object's value and every field it lacks is the
\* default: an empty mapping for favorite_genres, favorite_authors,
\* common_themes and era_preferences, "mixed" for reading_level, 0.5 for
\* diversity_score, "" for summary.  Any subset of the seven fields does.
C14_MissingFieldsDefault ==
  Replied("profile") =>
    LET r  == ProfileJson
        ms == r.v.ms
        tp == taste_profile
    IN  (r.ok /\ r.v.t = "dict") =>
          /\ pc = "profile_done"
          /\ exc = "none"
          /\ tp.favorite_genres =
               IF HasKey(ms, "favorite_genres") THEN GenresOf(Member(ms, "favorite_genres")) ELSE << >>
          /\ tp.favorite_authors =
               IF HasKey(ms, "favorite_authors") THEN CountsOf(Member(ms, "favorite_authors")) ELSE << >>
          /\ tp.common_themes =
               IF HasKey(ms, "common_themes") THEN CountsOf(Member(ms, "common_themes")) ELSE << >>
          /\ tp.era_preferences =
               IF HasKey(ms, "era_preferences") THEN CountsOf(Member(ms, "era_preferences")) ELSE << >>
          /\ tp.reading_level =
               IF HasKey(ms, "reading_level") THEN StrOf(Member(ms, "reading_level")) ELSE "mixed"
          /\ tp.diversity_score =
               IF HasKey(ms, "diversity_score") THEN FloatOf(Member(ms, "diversity_score")) ELSE Div(1, 2)
          /\ tp.summary =
               IF HasKey(ms, "summary") THEN TextOf(Member(ms, "summary")) ELSE << >>

C14_Witness ==
  /\ Replied("profile")
  /\ pc = "profile_done"
  /\ content = <<"{", "common_themes:T", "summary:s1", "}">>
  /\ taste_profile.common_themes = <<[k |-> "t1", v |-> 1], [k |-> "t2", v |-> 3]>>
  /\ taste_profile.summary = <<"s1">>
  /\ taste_profile.favorite_genres = << >>
  /\ taste_profile.reading_level = "mixed"
  /\ taste_profile.diversity_score = Div(1, 2)

\* BookScore bs holds every field of response element e as the element
\* gives it, and the default for every field the element lacks.
CopiedFrom(bs, e) ==
  /\ bs.book.title = ElemTitle(e)
  /\ \A key \in {"overall_score", "genre_match", "theme_match",
                  "author_similarity", "novelty_score"} :
       bs[key] = IF HasKey(e.ms, key) THEN NumOf(Member(e.ms, key)) ELSE 0
  /\ bs.reasoning = IF HasKey(e.ms, "reasoning") THEN StrOf(Member(e.ms, "reasoning")) ELSE ""
  /\ bs.recommendation =
       IF HasKey(e.ms, "recommendation") THEN StrOf(Member(e.ms, "recommendation"))
       ELSE "maybe"

\* C15: every BookScore that score_unread_books returns copies a response
\* element matched to an unread Book: each field the element holds
\* unchanged (a score above 100 stays above 100), and for each field it
\* lacks 0 (overall_score, genre_match, theme_match, author_similarity,
\* novelty_score), "maybe" (recommendation) or "" (reasoning).
C15_FieldsCopiedOrDefault ==
  Replied("score") =>
    LET r == ScoresJson
        es == r.v.es
        matched == MatchedIdx(es)
    IN  (r.ok /\ r.v.t = "list" /\ \A i \in 1..Len(es) : es[i].t = "dict") =>
          /\ \A j \in 1..Len(scored_books) :
               \E i \in matched : CopiedFrom(scored_books[j], es[i])
          /\ \A i \in matched :
               \E j \in 1..Len(scored_books) : CopiedFrom(scored_books[j], es[i])

C15_Witness ==
  /\ ScoreReturned
  /\ content = FullScores
  /\ Len(scored_books) = 2
  /\ scored_books[1].book.title = "A"
  /\ scored_books[1].overall_score = 150
  /\ scored_books[1].genre_match = 10
  /\ scored_books[1].theme_match = 20
  /\ scored_books[1].author_similarity = 30
  /\ scored_books[1].novelty_score = 50
  /\ scored_books[1].reasoning = "r2"
  /\ scored_books[1].recommendation = "recommended"
  /\ scored_books[2].book.title = "B"
  /\ scored_books[2].overall_score = 0
  /\ scored_books[2].novelty_score = 0
  /\ scored_books[2].reasoning = ""
  /\ scored_books[2].recommendation = "maybe"

\* C16: a Book constructed without genres or themes, or with None for
\* them, holds genres = [] and themes = []; a constructed Book never holds
\* None in either field, and a list given to the constructor is kept.
C16_NoNullContainers ==
  (entry = "Book" /\ pc = "done") =>
    LET a == constructed.args
        b == constructed.instance
    IN  /\ b.genres.some
        /\ b.themes.some
        /\ ~a.genres.some => b.genres.val = << >>
        /\ ~a.themes.some => b.themes.val = << >>
        /\ a.genres.some => b.genres = a.genres
        /\ a.themes.some => b.themes = a.themes

C16_Witness ==
  /\ entry = "Book"
  /\ pc = "done"
  /\ constructed.args = [title |-> "A", author |-> "X", genres |-> None, themes |-> None]
  /\ constructed.instance.genres = Some(<< >>)
  /\ constructed.instance.themes = Some(<< >>)

\* C17: every get_recommendations call with non-empty read_books and
\* non-empty unread_books invokes the backend exactly twice before it ends,
\* first with the profile prompt and then with the scoring prompt.
C17_ExactlyTwoCalls ==
  (/\ entry = "get_recommendations"
   /\ pc \in {"done", "raised"}
   /\ read_books # << >>
   /\ unread_books # << >>) =>
    /\ Len(calls) = 2
    /\ calls[1].stage = "profile"
    /\ calls[2].stage = "score"

\* The analyzer that is not running.
OtherVariant == IF variant = "app2" THEN "remd" ELSE "app2"

\* C18: for the same books and the same reply text the two analyzers end
\* alike: what the running analyzer made of the profile reply (the
\* TasteProfile returned or the exception raised) is what the other
\* analyzer makes of it, and so for the scoring reply and its BookScore
\* list.
C18_SameOutcomeBothAnalyzers ==
  /\ (Replied("profile") /\ pc \in {"profile_done", "raised"}) =>
       [exc |-> exc, profile |-> taste_profile]
         = ParseProfile(OtherVariant, content, read_books)
  /\ (Replied("score") /\ pc \in {"score_done", "raised"}) =>
       [exc |-> exc, scores |-> scored_books]
         = ParseScores(OtherVariant, content, unread_books)

\* The brackets of the shape the running stage expects.
OpenBracket == IF LastCall.stage = "profile" THEN "{" ELSE "["

CloseBracket == IF LastCall.stage = "profile" THEN "}" ELSE "]"

\* The reply holds an opening bracket and a closing bracket after it.
HasBracketPair ==
  \E i, j \in 1..Len(content) :
    i < j /\ content[i] = OpenBracket /\ content[j] = CloseBracket

FirstOpen ==
  CHOOSE i \in 1..Len(content) :
    content[i] = OpenBracket /\ \A k \in 1..(i - 1) : content[k] # OpenBracket

LastClose ==
  CHOOSE j \in 1..Len(content) :
    content[j] = CloseBracket /\ \A k \in (j + 1)..Len(content) : content[k] # CloseBracket

AReplyArrived == calls # << >> /\ ~LastCall.failed /\ pc # "idle"

\* C19: when the reply holds an opening bracket of the expected shape and
\* a closing bracket after it, the text given to json.loads is the reply
\* from its first opening bracket to its last closing bracket, both
\* included; so a reply that wraps one JSON object (array) in prose free of
\* brackets yields what the object (array) alone yields.
C19_FirstOpenToLastClose ==
  (AReplyArrived /\ HasBracketPair) =>
    LET inner == SubSeq(content, FirstOpen, LastClose)
    IN  /\ json_str(variant, content, OpenBracket, CloseBracket) = inner
        /\ (content = Prose(inner) /\ JsonLoads(inner).ok) =>
             IF LastCall.stage = "profile"
             THEN [exc |-> exc, profile |-> taste_profile]
                    = ParseProfile(variant, inner, read_books)
             ELSE [exc |-> exc, scores |-> scored_books]
                    = ParseScores(variant, inner, unread_books)

C19_Witness ==
  /\ AReplyArrived
  /\ LastCall.stage = "profile"
  /\ content = Prose(<<"{", "reading_level:literary", "summary:s1", "}">>)
  /\ pc = "profile_done"
  /\ taste_profile.reading_level = "literary"
  /\ taste_profile.summary = <<"s1">>

\* C20: when the reply holds no opening bracket of the expected shape with
\* a closing bracket after it, the text given to json.loads is the whole
\* reply.
C20_NoPairParsesWholeReply ==
  (AReplyArrived /\ ~HasBracketPair) =>
    json_str(variant, content, OpenBracket, CloseBracket) = content

DistinctGenres(books) == UNION {Range(books[i].genres) : i \in 1..Len(books)}

DistinctThemes(books) == UNION {Range(books[i].themes) : i \in 1..Len(books)}

DistinctAuthors(books) == {books[i].author : i \in 1..Len(books)}

\* Every place a genre (theme) is written on a book.
GenreOccs(books) ==
  UNION {{<<i, j>> : j \in 1..Len(books[i].genres)} : i \in 1..Len(books)}

ThemeOccs(books) ==
  UNION {{<<i, j>> : j \in 1..Len(books[i].themes)} : i \in 1..Len(books)}

GenreCount(books, g) == Cardinality({o \in GenreOccs(books) : books[o[1]].genres[o[2]] = g})

ThemeCount(books, t) == Cardinality({o \in ThemeOccs(books) : books[o[1]].themes[o[2]] = t})

AuthorCount(books, a) == Cardinality({i \in 1..Len(books) : books[i].author = a})

\* keys are min(5, |all|) different members of all, and none left out has
\* a higher count than one listed.
IsTopFive(keys, all, Cnt(_)) ==
  /\ Len(keys) = Min(5, Cardinality(all))
  /\ \A i, j \in 1..Len(keys) : keys[i] = keys[j] => i = j
  /\ Range(keys) \subseteq all
  /\ \A k \in Range(keys), h \in all \ Range(keys) : Cnt(k) >= Cnt(h)

\* C21: in the fallback profile favorite_genres lists the (at most five)
\* genres with the highest occurrence counts, each weighted by its count
\* over the occurrences of all genres, listed or not; favorite_authors and
\* common_themes list the (at most five) authors and themes with the
\* highest counts, each with its count.
C21_TopFiveByCount ==
  BasicProfileReturned =>
    LET rb == read_books
        fg == taste_profile.favorite_genres
        fa == taste_profile.favorite_authors
        ct == taste_profile.common_themes
    IN  /\ IsTopFive(Keys(fg), DistinctGenres(rb), LAMBDA g : GenreCount(rb, g))
        /\ \A i \in 1..Len(fg) :
             fg[i].v = Div(GenreCount(rb, fg[i].k), Cardinality(GenreOccs(rb)))
        /\ IsTopFive(Keys(fa), DistinctAuthors(rb), LAMBDA a : AuthorCount(rb, a))
        /\ \A i \in 1..Len(fa) : fa[i].v = AuthorCount(rb, fa[i].k)
        /\ IsTopFive(Keys(ct), DistinctThemes(rb), LAMBDA t : ThemeCount(rb, t))
        /\ \A i \in 1..Len(ct) : ct[i].v = ThemeCount(rb, ct[i].k)

C21_Witness ==
  /\ BasicProfileReturned
  /\ read_books = LongShelf
  /\ Len(taste_profile.favorite_genres) = 5
  /\ taste_profile.favorite_genres[2] = [k |-> "g8", v |-> Div(3, 13)]
  /\ taste_profile.favorite_authors[1] = [k |-> "U", v |-> 2]
  /\ Len(taste_profile.favorite_authors) = 5
  /\ taste_profile.common_themes[1] = [k |-> "t6", v |-> 3]
  /\ Len(taste_profile.common_themes) = 5

\* The names of all that the summary mentions are min(n, |all|) in number
\* and none left out has a higher count than one mentioned.
NamesTop(n, all, Cnt(_)) ==
  LET named == Range(taste_profile.summary) \cap all
  IN  /\ Cardinality(named) = Min(n, Cardinality(all))
      /\ \A k \in named, h \in all \ named : Cnt(k) >= Cnt(h)

\* C22: the summary of the fallback profile names the three genres with
\* the highest occurrence counts and the two authors with the highest
\* occurrence counts.
C22_SummaryNamesTop ==
  BasicProfileReturned =>
    /\ NamesTop(3, DistinctGenres(read_books), LAMBDA g : GenreCount(read_books, g))
    /\ NamesTop(2, DistinctAuthors(read_books), LAMBDA a : AuthorCount(read_books, a))

\* The last position in unread_books of a Book with this title.
LastWithTitle(title) ==
  CHOOSE i \in 1..Len(unread_books) :
    /\ unread_books[i].title = title
    /\ \A k \in 1..Len(unread_books) : unread_books[k].title = title => k <= i

\* C23: when several unread Books share a title, every BookScore returned
\* for that title wraps the last of them in unread_books, never an earlier
\* one.
C23_LaterDuplicateShadows ==
  ScoreReturned =>
    \A j \in 1..Len(scored_books) :
      /\ scored_books[j].book.title \in Titles(unread_books)
      /\ scored_books[j].book = unread_books[LastWithTitle(scored_books[j].book.title)]

C23_Witness ==
  /\ ScoreReturned
  /\ Len(unread_books) = 2
  /\ unread_books[1].title = "A" /\ unread_books[1].author = "X"
  /\ unread_books[2].title = "A" /\ unread_books[2].author = "Y"
  /\ Len(scored_books) = 2
  /\ \A j \in 1..2 : scored_books[j].book = unread_books[2]

\* C24: format_output lists at most five genres, in non-increasing order
\* of weight, and at most five authors, in non-increasing order of count,
\* whatever the size and insertion order of the profile's mappings.
C24_TopFiveDescending ==
  (entry = "format_output" /\ pc = "done") =>
    /\ Len(output.genres) <= 5
    /\ \A i \in 1..(Len(output.genres) - 1) :
         ~RatGt(output.genres[i + 1].v, output.genres[i].v)
    /\ Len(output.authors) <= 5
    /\ \A i \in 1..(Len(output.authors) - 1) :
         output.authors[i].v >= output.authors[i + 1].v

\* C25: every BookScore score_unread_books returns wraps a Book that is
\* an element of unread_books, and the BookScores are no more than the
\* elements of the parsed response array; they may be more than the unread
\* books when the response repeats a title.
C25_ScoresWithinResponse ==
  ScoreReturned =>
    LET r == ScoresJson
    IN  /\ \A j \in 1..Len(scored_books) :
             \E i \in 1..Len(unread_books) : scored_books[j].book = unread_books[i]
        /\ Len(scored_books) <= IF r.ok /\ r.v.t = "list" THEN Len(r.v.es) ELSE 0

C25_Witness ==
  /\ ScoreReturned
  /\ Len(unread_books) = 1
  /\ unread_books[1].title = "B"
  /\ ScoresJson.ok
  /\ Len(ScoresJson.v.es) = 3
  /\ Len(scored_books) = 2
  /\ \A j \in 1..2 : scored_books[j].book = unread_books[1]

\* The weights of the returned favorite_genres as the floats c / total.
FloatWeights ==
  LET fg == taste_profile.favorite_genres
  IN  [i \in 1..Len(fg) |-> float_div(fg[i].v.num, fg[i].v.den)]

\* 1 - 2^-50 and 1 + 2^-50
NearOneLow == [e |-> 0 - 1, m |-> Ones(50) \o Zeros(3)]

NearOneHigh == [e |-> 0, m |-> <<1>> \o Zeros(49) \o <<1, 0, 0>>]

\* C26 (as the specification states it): for a non-empty list of read
\* books every favorite_genres weight is above 0 and at most 1; the weights
\* sum to at most 1, to exactly 1 when the books carry one to five
\* distinct genres and to less than 1 when they carry more; with no genre
\* at all the mapping is empty.
C26_WeightsSumToOne ==
  BasicProfileReturned =>
    LET fg == taste_profile.favorite_genres
        ws == FloatWeights
        n  == Cardinality(DistinctGenres(read_books))
    IN  /\ \A i \in 1..Len(fg) : fg[i].v.num > 0 /\ ~float_lt(float_one, ws[i])
        /\ n = 0 => fg = << >>
        /\ n > 0 =>
             /\ ~float_lt(float_one, float_sum(ws))
             /\ n <= 5 => float_sum(ws) = float_one
             /\ n > 5 => float_lt(float_sum(ws), float_one)

\* C26: for a non-empty list of read books every favorite_genres weight
\* is above 0 and at most 1; added as floats in the mapping's order the
\* weights give a sum within 2^-50 of 1 (below, at or above 1) when the
\* books carry one to five distinct genres, and a sum below 1 when they
\* carry more than five; with no genre at all the mapping is empty.
C26_WeightsSumNearOne ==
  BasicProfileReturned =>
    LET fg == taste_profile.favorite_genres
        ws == FloatWeights
        n  == Cardinality(DistinctGenres(read_books))
    IN  /\ \A i \in 1..Len(fg) : fg[i].v.num > 0 /\ ~float_lt(float_one, ws[i])
        /\ n = 0 => fg = << >>
        /\ (n > 0 /\ n <= 5) =>
             /\ float_lt(NearOneLow, float_sum(ws))
             /\ float_lt(float_sum(ws), NearOneHigh)
        /\ n > 5 => float_lt(float_sum(ws), float_one)

\* Weights 3/6, 2/6 and 1/6 add up to 0.9999999999999999.
C26_Witness ==
  /\ BasicProfileReturned
  /\ read_books = ThreeShelf
  /\ Len(taste_profile.favorite_genres) = 3
  /\ float_sum(FloatWeights) = [e |-> 0 - 1, m |-> Ones(53)]

\* The three keys /auth/callback stores in the session.
SessionKeys == {"access_token", "refresh_token", "user_id"}

\* The last request was an /auth/callback whose code exchange or whose
\* get_or_create_user failed.
CallbackFailed ==
  /\ request.route = "/auth/callback"
  /\ response.status = 400
  /\ response.body = "Authentication error"

\* C27: when /auth/callback answers with an error because the code exchange
\* or get_or_create_user failed, the session holds no access_token, no
\* refresh_token and no user_id, and so no token login_required would let
\* through on a later request.
C27_FailedLoginLeavesNoTokens ==
  CallbackFailed => \A k \in SessionKeys : ~SessionHas(session, k)

\* The routes wrapped by login_required.
Protected == {"/dashboard", "/api/user", "/api/user/update"}

\* A step that serves a request to a wrapped route.
ProtectedRequest ==
  /\ request'.route \in Protected
  /\ tokens' = tokens
  /\ web_vars' # web_vars

\* C28: in a request to a route wrapped by login_required the handler runs
\* only if the session holds an access_token the auth service accepts in
\* that request; with no access_token the handler is not run, the session
\* stays and the response redirects to /login; with a token the service
\* rejects the handler is not run, the session is cleared and the response
\* redirects to /login.
C28_OnlyValidatedSessionsRun ==
  [][ProtectedRequest =>
       /\ response'.ran =>
            /\ SessionHas(session, "access_token")
            /\ SessionGet(session, "access_token") \in tokens
       /\ ~SessionHas(session, "access_token") =>
            /\ ~response'.ran
            /\ response' = Redirect("/login", FALSE)
            /\ session' = session
       /\ (SessionHas(session, "access_token")
             /\ SessionGet(session, "access_token") \notin tokens) =>
            /\ ~response'.ran
            /\ response' = Redirect("/login", FALSE)
            /\ session' = {}]_vars

\* A wrapped handler ran under a session whose token the service accepts.
C28_Witness ==
  /\ request.route \in Protected
  /\ response.ran
  /\ response.status = 200
  /\ SessionHas(session, "access_token")
  /\ SessionGet(session, "access_token") \in tokens

\* A step that serves a PUT /api/user/update.
UpdateRequest ==
  /\ request'.route = "/api/user/update"
  /\ tokens' = tokens
  /\ web_vars' # web_vars

\* The value the supplied data gives to key k.
DataGet(data, k) == (CHOOSE p \in data : p[1] = k)[2]

\* C29: a PUT /api/user/update leaves every row whose id differs from the
\* session's user_id as it was; in the row with that id, when the update
\* went through, full_name, avatar_url, bio and phone take the supplied
\* values where supplied and stay otherwise, updated_at is set to the
\* time of the update, and every other column (id, email, provider,
\* created_at, last_login) stays whatever keys the caller supplied.
C29_OnlyAllowedFieldsOfOwnRow ==
  [][UpdateRequest =>
       IF response'.status # 200
         THEN users' = users
         ELSE LET user_id == SessionGet(session, "user_id")
                  data == request'.data
              IN  /\ {r \in users' : r.id # user_id} = {r \in users : r.id # user_id}
                  /\ \A r \in users : r.id = user_id =>
                       \E w \in users' :
                         /\ \A c \in Columns \ (allowed_fields \cup {"updated_at"}) :
                              w[c] = r[c]
                         /\ \A c \in allowed_fields :
                              w[c] = IF \E p \in data : p[1] = c
                                       THEN DataGet(data, c) ELSE r[c]
                         /\ w.updated_at \in Times
                  /\ Cardinality(users') = Cardinality(users)]_vars

\* An update that supplied id, email and other columns went through: the
\* caller's row took the new full_name and kept its id and email.
C29_Witness ==
  /\ request.route = "/api/user/update"
  /\ response.status = 200
  /\ \E p \in request.data : p[1] = "id" /\ p[2] = "u2"
  /\ SessionHas(session, "user_id")
  /\ SessionGet(session, "user_id") = "u1"
  /\ \E r \in users :
       /\ r.id = "u1"
       /\ r.full_name = "n9"
       /\ r.email = "e1"
       /\ r.updated_at = "t1"
  /\ \E r \in users : r.id = "u2" /\ r.full_name = "n2"

\* format_ocr_text got a reply from the backend.
OcrReplied == entry = "format_ocr_text" /\ exc # "GenerationError"

\* The text between the first "{" and the last "}" of the reply.
OcrJson == JsonLoads(Slice(content, Find(content, "{"), RFind(content, "}") + 1))

\* C30: whatever the backend replied, format_ocr_text returns and raises
\* nothing; when the reply has no "{" or no "}", or the text from the first
\* "{" to the last "}" is not valid JSON, all six fields of the result are
\* None; otherwise each field is the member of that name of the parsed
\* object, None for an absent title, author, year or description and [] for
\* an absent genres or themes.
C30_OcrNeverRaisesOnContent ==
  OcrReplied =>
    LET j == OcrJson
    IN  /\ exc = "none"
        /\ pc = "done"
        /\ (Find(content, "{") = -1 \/ RFind(content, "}") = -1 \/ ~j.ok) =>
             \A f \in DOMAIN ocr_data : ocr_data[f] = PyNone
        /\ (Find(content, "{") # -1 /\ RFind(content, "}") # -1 /\ j.ok) =>
             /\ j.v.t = "dict"
             /\ \A f \in {"title", "author", "year", "description"} :
                  ocr_data[f] = IF HasKey(j.v.ms, f) THEN PyOf(Member(j.v.ms, f)) ELSE PyNone
             /\ \A f \in {"genres", "themes"} :
                  ocr_data[f] = IF HasKey(j.v.ms, f) THEN PyOf(Member(j.v.ms, f))
                                ELSE PyList(<< >>)

\* A reply inside prose whose object has a title and no genres or themes.
C30_Witness ==
  /\ OcrReplied
  /\ content = Prose(<<"{", "title:A", "year:1999", "}">>)
  /\ ocr_data.title = PyStr("A")
  /\ ocr_data.author = PyNone
  /\ ocr_data.genres = PyList(<< >>)
  /\ ocr_data.themes = PyList(<< >>)
  /\ ocr_data.year = PyInt(1999)

====
